---------------------------- MODULE Spec2Model ----------------------------
(***************************************************************************)
(* Vertex painting engine of the 3d-mesh-painter repository.               *)
(*                                                                         *)
(* Two painter components are modelled side by side, selected by the       *)
(* variable `variant':                                                     *)
(*   "dual"  - the dual-mode painter (mesh-label map + pain-area map,      *)
(*             colours produced only by the recolor effect);               *)
(*   "blend" - the single-map painter that blends colours in paintAtPoint. *)
(*                                                                         *)
(* Real numbers are exact rationals <<n, d>> (d > 0, lowest terms); a      *)
(* denominator 0 stands for the numbers that are not finite.               *)
(* A vertex index is 0-based as in the code; a colour buffer is the flat   *)
(* array [0 .. 3*count-1] of the code.                                     *)
(*                                                                         *)
(* One action stands for one handler together with the React render and    *)
(* the effects that the handler's state updates trigger.                   *)
(***************************************************************************)
EXTENDS Integers, Sequences, FiniteSets, TLC

-----------------------------------------------------------------------------
(* Exact rational arithmetic                                               *)

Abs(n) == IF n < 0 THEN -n ELSE n

RECURSIVE GCD(_, _)
GCD(a, b) == IF b = 0 THEN a ELSE GCD(b, a % b)

\* n / d in lowest terms; as in JavaScript, x / 0 is Infinity or -Infinity
\* (<<1, 0>>, <<-1, 0>>) and 0 / 0 is NaN (<<0, 0>>).
Rat(n, d) ==
  LET s == IF d < 0 THEN -1 ELSE 1
      g == GCD(Abs(n), Abs(d))
  IN  IF g = 0 THEN <<0, 0>> ELSE <<(s * n) \div g, (s * d) \div g>>

RZero == <<0, 1>>
ROne == <<1, 1>>
RAdd(a, b) == Rat(a[1] * b[2] + b[1] * a[2], a[2] * b[2])
RSub(a, b) == Rat(a[1] * b[2] - b[1] * a[2], a[2] * b[2])
RMul(a, b) == Rat(a[1] * b[1], a[2] * b[2])
RDiv(a, b) == Rat(a[1] * b[2], a[2] * b[1])
RLeq(a, b) == a[1] * b[2] <= b[1] * a[2]
RLt(a, b) == a[1] * b[2] < b[1] * a[2]
RMax(a, b) == IF RLeq(a, b) THEN b ELSE a
RMin(a, b) == IF RLeq(a, b) THEN a ELSE b

RECURSIVE SqrtSearch(_, _, _)
SqrtSearch(n, lo, hi) ==
  IF lo >= hi THEN lo
  ELSE LET mid == (lo + hi + 1) \div 2
       IN  IF mid * mid <= n THEN SqrtSearch(n, mid, hi)
           ELSE SqrtSearch(n, lo, mid - 1)

\* Integer square root (floor); exact on the perfect squares the meshes use.
ISqrt(n) == SqrtSearch(n, 0, n)

\* Math.sqrt on a rational whose numerator and denominator are squares.
RSqrt(q) == Rat(ISqrt(q[1]), ISqrt(q[2]))

-----------------------------------------------------------------------------
(* THREE.Vector3                                                           *)

Vec(x, y, z) == <<x, y, z>>

DistanceTo(a, b) ==
  LET dx == RSub(a[1], b[1])
      dy == RSub(a[2], b[2])
      dz == RSub(a[3], b[3])
  IN  RSqrt(RAdd(RAdd(RMul(dx, dx), RMul(dy, dy)), RMul(dz, dz)))

-----------------------------------------------------------------------------
(* utils/meshUtils                                                         *)

\* null for object references; a missing class id is the string NoId.
NULL == <<>>
NoId == "null"

\* An uploaded file: its name (stem and extension) and the vertex positions
\* its parser yields, as a function from 0-based vertex index to Vector3.
FileA ==
  [stem |-> "a", ext |-> ".stl",
   positions |-> [i \in 0..3 |->
      Vec(Rat(<<0, 100, 110, 200>>[i + 1], 1), Rat(5, 1), Rat(5, 1))]]

FileBad ==
  [stem |-> "c", ext |-> ".txt",
   positions |-> [i \in 0..0 |-> Vec(RZero, RZero, RZero)]]

\* Numbers that are not finite.
NaN == <<0, 0>>
Infinity == <<1, 0>>
NegInfinity == <<-1, 0>>

\* Position data a parser can yield.
NoPositions == [i \in {} |-> Vec(RZero, RZero, RZero)]
WithNaN ==
  [i \in 0..2 |-> Vec(Rat(<<0, 1, 2>>[i + 1], 1), IF i = 1 THEN NaN ELSE RZero, RZero)]
WithInfinity ==
  [i \in 0..2 |-> Vec(Rat(<<0, 1, 2>>[i + 1], 1), RZero, IF i = 2 THEN Infinity ELSE RZero)]
WithNegInfinity ==
  [i \in 0..2 |-> Vec(IF i = 0 THEN NegInfinity ELSE RZero, RZero, RZero)]
OnePoint == [i \in 0..2 |-> Vec(Rat(5, 1), Rat(5, 1), Rat(5, 1))]
FlatInX == [i \in 0..2 |-> Vec(Rat(5, 1), Rat(<<0, 10, 20>>[i + 1], 1), Rat(5, 1))]
MeshB == [i \in 0..2 |-> Vec(Rat(<<0, 4, 8>>[i + 1], 1), RZero, RZero)]
MeshC == [i \in 0..2 |-> Vec(RZero, RZero, Rat(<<0, 2, 8>>[i + 1], 1))]

\* .stl files: `positions' is the position attribute STLLoader.parse yields.
FileEmpty == [stem |-> "empty", ext |-> ".stl", positions |-> NoPositions]
FileNaN == [stem |-> "nan", ext |-> ".stl", positions |-> WithNaN]
FileInfinity == [stem |-> "inf", ext |-> ".stl", positions |-> WithInfinity]
FilePoint == [stem |-> "point", ext |-> ".stl", positions |-> OnePoint]
FileFlat == [stem |-> "flat", ext |-> ".stl", positions |-> FlatInX]

\* .obj files: `positions' is the sequence of the position attributes of
\* the meshes OBJLoader.parse yields, in traversal order.
FileObj ==
  [stem |-> "parts", ext |-> ".obj",
   positions |-> <<NoPositions, WithNegInfinity, MeshB, MeshC>>]
FileObjNone ==
  [stem |-> "none", ext |-> ".obj", positions |-> <<WithNaN, NoPositions>>]
FileObjPoint ==
  [stem |-> "pointfirst", ext |-> ".obj", positions |-> <<OnePoint, MeshB>>]

Files == {FileA, FileBad, FileEmpty, FileNaN, FileInfinity, FilePoint,
          FileFlat, FileObj, FileObjNone, FileObjPoint}

Count(positions) == Cardinality(DOMAIN positions)

Axis(positions, k) == {positions[i][k] : i \in DOMAIN positions}
MinOf(S) == CHOOSE x \in S : \A y \in S : RLeq(x, y)
MaxOf(S) == CHOOSE x \in S : \A y \in S : RLeq(y, x)

\* isNaN(x) || !isFinite(x)
NotANumber(x) == x[2] = 0

\* hasValidData: no coordinate is NaN or infinite.
HasValidData(positions) ==
  \A i \in DOMAIN positions : \A k \in 1..3 : ~NotANumber(positions[i][k])

\* Variant of the traversal that takes the first mesh with position data,
\* whatever its coordinates.
FoundGeometryUnvalidated(children) ==
  IF \E i \in 1..Len(children) : Count(children[i]) > 0
  THEN children[CHOOSE i \in 1..Len(children) :
                  /\ Count(children[i]) > 0
                  /\ \A j \in 1..(i - 1) : Count(children[j]) = 0]
  ELSE NULL

\* object.traverse: the first mesh whose position data is present, not
\* empty and valid, or NULL.
FoundGeometry(children) ==
  LET Passes(c) == Count(c) > 0 /\ HasValidData(c)
  IN  IF \E i \in 1..Len(children) : Passes(children[i])
      THEN children[CHOOSE i \in 1..Len(children) :
                      /\ Passes(children[i])
                      /\ \A j \in 1..(i - 1) : ~Passes(children[j])]
      ELSE NULL

\* Variant of the bounding-box step that tests the x extent only.
CenterAndScaleChecksXOnly(pos) ==
  LET lo == [k \in 1..3 |-> MinOf(Axis(pos, k))]
      hi == [k \in 1..3 |-> MaxOf(Axis(pos, k))]
      center == [k \in 1..3 |-> RDiv(RAdd(lo[k], hi[k]), Rat(2, 1))]
      size == [k \in 1..3 |-> RSub(hi[k], lo[k])]
      maxDim == RMax(size[1], RMax(size[2], size[3]))
  IN  IF size[1] = RZero
      THEN [ok |-> FALSE, error |-> "Invalid geometry: zero-sized bounding box"]
      ELSE LET scale == RDiv(Rat(2, 1), maxDim)
           IN  [ok |-> TRUE,
                geometry |-> [i \in DOMAIN pos |->
                   [k \in 1..3 |-> RMul(RSub(pos[i][k], center[k]), scale)]]]

\* Variant of the bounding-box step that scales the largest extent to 1.
CenterAndScaleUnitBox(pos) ==
  LET lo == [k \in 1..3 |-> MinOf(Axis(pos, k))]
      hi == [k \in 1..3 |-> MaxOf(Axis(pos, k))]
      center == [k \in 1..3 |-> RDiv(RAdd(lo[k], hi[k]), Rat(2, 1))]
      size == [k \in 1..3 |-> RSub(hi[k], lo[k])]
      maxDim == RMax(size[1], RMax(size[2], size[3]))
  IN  IF maxDim = RZero
      THEN [ok |-> FALSE, error |-> "Invalid geometry: zero-sized bounding box"]
      ELSE LET scale == RDiv(ROne, maxDim)
           IN  [ok |-> TRUE,
                geometry |-> [i \in DOMAIN pos |->
                   [k \in 1..3 |-> RMul(RSub(pos[i][k], center[k]), scale)]]]

\* "Center and scale the geometry": bounding box, zero test, translate and
\* scale.
CenterAndScale(pos) ==
  LET lo == [k \in 1..3 |-> MinOf(Axis(pos, k))]
      hi == [k \in 1..3 |-> MaxOf(Axis(pos, k))]
      center == [k \in 1..3 |-> RDiv(RAdd(lo[k], hi[k]), Rat(2, 1))]
      size == [k \in 1..3 |-> RSub(hi[k], lo[k])]
      maxDim == RMax(size[1], RMax(size[2], size[3]))
  IN  IF maxDim = RZero
      THEN [ok |-> FALSE, error |-> "Invalid geometry: zero-sized bounding box"]
      ELSE LET scale == RDiv(Rat(2, 1), maxDim)
           IN  [ok |-> TRUE,
                geometry |-> [i \in DOMAIN pos |->
                   [k \in 1..3 |-> RMul(RSub(pos[i][k], center[k]), scale)]]]

\* loadMeshFromFile: [ok |-> TRUE, geometry |-> normalized positions] or
\* [ok |-> FALSE, error |-> message].
LoadMeshFromFile(file) ==
  IF file.ext \notin {".stl", ".obj"}
  THEN [ok |-> FALSE, error |-> "Unsupported file format"]
  ELSE
    LET found == IF file.ext = ".stl" THEN file.positions
                 ELSE FoundGeometry(file.positions)
    IN  IF file.ext = ".obj" /\ found = NULL
        THEN [ok |-> FALSE, error |-> "No valid mesh geometry found in OBJ file"]
        ELSE IF Count(found) = 0
        THEN [ok |-> FALSE, error |-> "Invalid geometry: no position data"]
        ELSE IF ~HasValidData(found)
        THEN [ok |-> FALSE,
              error |-> "Invalid geometry: contains NaN or infinite values"]
        ELSE CenterAndScale(found)

BaselineGray == Rat(7, 10)

InitializeVertexColors(geometry) ==
  [i \in 0..(3 * Count(geometry) - 1) |-> BaselineGray]

\* A hex colour is its sequence of hexadecimal digit values ("#EF4444" is
\* <<14, 15, 4, 4, 4, 4>>); anything the regular expression rejects is black.
HexToRgb(hex) ==
  IF Len(hex) = 6 /\ \A i \in 1..6 : hex[i] \in 0..15
  THEN <<Rat(16 * hex[1] + hex[2], 255),
         Rat(16 * hex[3] + hex[4], 255),
         Rat(16 * hex[5] + hex[6], 255)>>
  ELSE <<RZero, RZero, RZero>>

RECURSIVE ScanVertices(_, _, _, _)
ScanVertices(geometry, centerPoint, radius, i) ==
  IF i >= Count(geometry) THEN <<>>
  ELSE IF RLeq(DistanceTo(geometry[i], centerPoint), radius)
       THEN <<i>> \o ScanVertices(geometry, centerPoint, radius, i + 1)
       ELSE ScanVertices(geometry, centerPoint, radius, i + 1)

\* Variant of the loop that collects the indices from the last vertex down.
RECURSIVE ScanVerticesDown(_, _, _, _)
ScanVerticesDown(geometry, centerPoint, radius, i) ==
  IF i < 0 THEN <<>>
  ELSE IF RLeq(DistanceTo(geometry[i], centerPoint), radius)
       THEN <<i>> \o ScanVerticesDown(geometry, centerPoint, radius, i - 1)
       ELSE ScanVerticesDown(geometry, centerPoint, radius, i - 1)

GetVerticesInRadiusDescending(geometry, centerPoint, radius) ==
  ScanVerticesDown(geometry, centerPoint, radius, Count(geometry) - 1)

RECURSIVE ScanVerticesInside(_, _, _, _)
ScanVerticesInside(geometry, centerPoint, radius, i) ==
  IF i >= Count(geometry) THEN <<>>
  ELSE IF RLt(DistanceTo(geometry[i], centerPoint), radius)
       THEN <<i>> \o ScanVerticesInside(geometry, centerPoint, radius, i + 1)
       ELSE ScanVerticesInside(geometry, centerPoint, radius, i + 1)

\* Variant of the query that leaves out vertices exactly on the brush edge.
GetVerticesInsideRadius(geometry, centerPoint, radius) ==
  ScanVerticesInside(geometry, centerPoint, radius, 0)

GetVerticesInRadius(geometry, centerPoint, radius) ==
  ScanVertices(geometry, centerPoint, radius, 0)

\* Variant of the strength function with the linear and the smooth formula
\* exchanged.
CalculateBrushStrengthSwapped(distance, radius, falloff, baseStrength) ==
  IF RLt(radius, distance) THEN RZero
  ELSE LET normalizedDistance == RDiv(distance, radius)
       IN  CASE falloff = "constant" -> baseStrength
             [] falloff = "smooth" ->
                  RMul(baseStrength, RSub(ROne, normalizedDistance))
             [] falloff = "linear" ->
                  RMul(baseStrength,
                       RSub(ROne, RMul(normalizedDistance, normalizedDistance)))
             [] OTHER -> baseStrength

\* Variant of the strength function without the test distance > radius.
CalculateBrushStrengthNoCutoff(distance, radius, falloff, baseStrength) ==
  LET normalizedDistance == RDiv(distance, radius)
  IN  CASE falloff = "constant" -> baseStrength
        [] falloff = "linear" ->
             RMul(baseStrength, RSub(ROne, normalizedDistance))
        [] falloff = "smooth" ->
             RMul(baseStrength,
                  RSub(ROne, RMul(normalizedDistance, normalizedDistance)))
        [] OTHER -> baseStrength

CalculateBrushStrength(distance, radius, falloff, baseStrength) ==
  IF RLt(radius, distance) THEN RZero
  ELSE LET normalizedDistance == RDiv(distance, radius)
       IN  CASE falloff = "constant" -> baseStrength
             [] falloff = "linear" ->
                  RMul(baseStrength, RSub(ROne, normalizedDistance))
             [] falloff = "smooth" ->
                  RMul(baseStrength,
                       RSub(ROne, RMul(normalizedDistance, normalizedDistance)))
             [] OTHER -> baseStrength

-----------------------------------------------------------------------------
(* Inputs                                                                  *)

\* Points at which the pointer ray meets the mesh surface: one on a vertex,
\* two close together away from every vertex.
HitOnVertex == Vec(RZero, RZero, RZero)
HitFar == Vec(Rat(1, 2), RZero, RZero)
HitNear == Vec(Rat(51, 100), RZero, RZero)

Hits == {HitOnVertex}
StrokeHits == {HitOnVertex, HitFar, HitNear}

\* Files the user uploads.
Uploads == {FileA}

Sizes == {Rat(1, 10), Rat(1, 20)}
Strengths == {Rat(4, 5), ROne}
Falloffs == {"constant", "smooth"}

\* Classes the user clicks on, and classes the user hides or deletes.
SelectIds == {"1"}
EditIds == {"1"}

Variants == {"dual", "blend"}

-----------------------------------------------------------------------------
(* State                                                                   *)

VARIABLES
  variant,            \* which painter component is mounted in the App
  meshData,           \* App: uploaded file content, or NULL
  fileName,           \* App: <<stem, extension>>, or <<>> for ''
  isPainting,         \* App: paint tool selected
  isErasing,          \* App: erase tool selected
  meshDataState,      \* App: what the painter last published, or NULL
  appMode,            \* App (dual): "mesh-labeling" | "pain-assessment"
  labelClasses,       \* App: sequence of label classes
  activeClassId,      \* App: id or NoId
  brushSettings,      \* App: [size, strength, falloff]
  geometry,           \* painter: normalized positions, or NULL
  vertexColors,       \* painter: current colour buffer, or NULL
  originalColors,     \* painter: baseline colour buffer, or NULL
  paintedVertices,    \* painter (blend): vertex index -> class id
  meshLabelVertices,  \* painter (dual): vertex index -> class id
  painAreaVertices,   \* painter (dual): vertex index -> class id
  isMouseDown,        \* painter: primary button held
  isRightMouseDown,   \* painter: secondary button held
  lastPaintPoint,     \* painter: ref, Vector3 or NULL
  pending             \* painter: state writes of a tick no render has committed yet, or NULL

appVars == <<meshData, fileName, isPainting, isErasing, meshDataState,
             appMode, labelClasses, activeClassId, brushSettings>>
meshVars == <<geometry, vertexColors, originalColors, paintedVertices,
              meshLabelVertices, painAreaVertices>>
pointerVars == <<isMouseDown, isRightMouseDown, lastPaintPoint>>
vars == <<variant, appVars, meshVars, pointerVars, pending>>

EmptyMap == [v \in {} |-> "x"]

Region1 == [id |-> "1", name |-> "Region 1", color |-> <<14, 15, 4, 4, 4, 4>>, visible |-> TRUE]
Region2 == [id |-> "2", name |-> "Region 2", color |-> <<3, 11, 8, 2, 15, 6>>, visible |-> TRUE]
Region3 == [id |-> "3", name |-> "Region 3", color |-> <<1, 0, 11, 9, 8, 1>>, visible |-> TRUE]

painClass == [id |-> "pain", name |-> "Problem Area", color |-> <<14, 15, 4, 4, 4, 4>>, visible |-> TRUE]

DefaultBrush == [size |-> Rat(1, 10), strength |-> Rat(4, 5), falloff |-> "smooth"]

\* Array.prototype.find on the class list: first class with the id, or NULL.
FindClass(classes, id) ==
  IF \E i \in 1..Len(classes) : classes[i].id = id
  THEN classes[CHOOSE i \in 1..Len(classes) :
                 /\ classes[i].id = id
                 /\ \A j \in 1..(i - 1) : classes[j].id # id]
  ELSE NULL

-----------------------------------------------------------------------------
(* Props the App passes to the painter                                     *)

ActiveClass ==
  IF variant = "dual" /\ appMode = "pain-assessment" THEN painClass
  ELSE FindClass(labelClasses, activeClassId)

CurrentLabelClasses ==
  IF variant = "dual" /\ appMode = "pain-assessment" THEN <<painClass>>
  ELSE labelClasses

\* Props the Apps pass to the painter: isPainting={isPainting || isErasing}
\* and isErasing={isErasing}.  The dual painter reads the two props under the
\* names isPaintModeActive and isEraseModeActive.
IsPaintingProp == isPainting \/ isErasing
IsErasingProp == isErasing
IsPaintModeActive == IsPaintingProp
IsEraseModeActive == IsErasingProp

Mounted == meshData # NULL

-----------------------------------------------------------------------------
(* Recolor effects ("Update vertex colors when classes change ...")        *)

RecolorBlend(oColors, painted, classes) ==
  [i \in DOMAIN oColors |->
     LET vertexIndex == i \div 3
         labelClass == IF vertexIndex \in DOMAIN painted
                       THEN FindClass(classes, painted[vertexIndex])
                       ELSE NULL
     IN  IF labelClass # NULL /\ labelClass.visible
         THEN HexToRgb(labelClass.color)[(i % 3) + 1]
         ELSE oColors[i]]

\* Variant of the recolor effect that applies the pain-area map first and the
\* mesh-label map last.
RecolorDualLabelsLast(oColors, meshLabel, painArea, classes, pain) ==
  LET first ==
        [i \in DOMAIN oColors |->
           IF (i \div 3) \in DOMAIN painArea /\ pain # NULL /\ pain.visible
           THEN HexToRgb(pain.color)[(i % 3) + 1]
           ELSE oColors[i]]
  IN  [i \in DOMAIN oColors |->
         LET vertexIndex == i \div 3
             labelClass == IF vertexIndex \in DOMAIN meshLabel
                           THEN FindClass(classes, meshLabel[vertexIndex])
                           ELSE NULL
         IN  IF labelClass # NULL /\ labelClass.visible
             THEN HexToRgb(labelClass.color)[(i % 3) + 1]
             ELSE first[i]]

RecolorDual(oColors, meshLabel, painArea, classes, pain) ==
  LET first ==
        [i \in DOMAIN oColors |->
           LET vertexIndex == i \div 3
               labelClass == IF vertexIndex \in DOMAIN meshLabel
                             THEN FindClass(classes, meshLabel[vertexIndex])
                             ELSE NULL
           IN  IF labelClass # NULL /\ labelClass.visible
               THEN HexToRgb(labelClass.color)[(i % 3) + 1]
               ELSE oColors[i]]
  IN  [i \in DOMAIN oColors |->
         IF (i \div 3) \in DOMAIN painArea /\ pain # NULL /\ pain.visible
         THEN HexToRgb(pain.color)[(i % 3) + 1]
         ELSE first[i]]

\* The colour buffer the painter holds once its effects have run, for the
\* props (mode, class list) of the render in which they run.
Recolor(geo, oColors, painted, meshLabel, painArea, mode, classes) ==
  IF geo = NULL \/ oColors = NULL THEN NULL
  ELSE IF variant = "dual"
  THEN RecolorDual(oColors, meshLabel, painArea,
                   IF mode = "pain-assessment" THEN <<painClass>> ELSE classes,
                   painClass)
  ELSE RecolorBlend(oColors, painted, classes)

-----------------------------------------------------------------------------
(* paintAtPoint                                                            *)

SeqRange(s) == {s[i] : i \in 1..Len(s)}

\* Strength the brush has on a vertex.
StrengthAt(geo, brush, point, vertexIndex) ==
  CalculateBrushStrength(DistanceTo(geo[vertexIndex], point),
                         brush.size, brush.falloff, brush.strength)

\* Variant of the forEach body that acts on every vertex the query returns.
TouchedWhateverStrength(geo, brush, point) ==
  SeqRange(GetVerticesInRadius(geo, point, brush.size))

\* Vertices the forEach body acts on: returned by the query, strength > 0.
Touched(geo, brush, point) ==
  {v \in SeqRange(GetVerticesInRadius(geo, point, brush.size)) :
     RLt(RZero, StrengthAt(geo, brush, point, v))}

\* Variant of the erase branch that deletes nothing.
MapDeleteNothing(m, S) == m

MapDelete(m, S) == [v \in (DOMAIN m) \ S |-> m[v]]
\* Variant of the paint branch that keeps the id of a vertex already in the
\* map.
MapSetKeepsExisting(m, S, id) ==
  [v \in (DOMAIN m) \cup S |-> IF v \in DOMAIN m THEN m[v] ELSE id]

MapSet(m, S, id) == [v \in (DOMAIN m) \cup S |-> IF v \in S THEN id ELSE m[v]]

\* current + (target - current) * strength
Blend(current, target, strength) ==
  RAdd(current, RMul(RSub(target, current), strength))

\* Variant of the blend painter that asks for an active class on erase too.
PaintAtPointBlendNeedsClass(geo, vColors, oColors, painted, active, brush, point, shouldErase) ==
  IF geo = NULL \/ vColors = NULL \/ oColors = NULL \/ active = NULL
  THEN [applied |-> FALSE, paintedVertices |-> painted, newColors |-> vColors]
  ELSE
    LET hit == Touched(geo, brush, point)
    IN  [applied |-> TRUE,
         paintedVertices |->
           IF shouldErase THEN MapDelete(painted, hit)
           ELSE MapSet(painted, hit, active.id),
         newColors |->
           [i \in DOMAIN vColors |->
              IF (i \div 3) \in hit
              THEN Blend(vColors[i],
                         IF shouldErase THEN oColors[i]
                         ELSE HexToRgb(active.color)[(i % 3) + 1],
                         StrengthAt(geo, brush, point, i \div 3))
              ELSE vColors[i]]]

\* Blend painter.  Result: [applied, paintedVertices, newColors].
PaintAtPointBlend(geo, vColors, oColors, painted, active, brush, point, shouldErase) ==
  IF geo = NULL \/ vColors = NULL \/ oColors = NULL
     \/ (~shouldErase /\ active = NULL)
  THEN [applied |-> FALSE, paintedVertices |-> painted, newColors |-> vColors]
  ELSE
    LET hit == Touched(geo, brush, point)
    IN  [applied |-> TRUE,
         paintedVertices |->
           IF shouldErase THEN MapDelete(painted, hit)
           ELSE MapSet(painted, hit, active.id),
         newColors |->
           [i \in DOMAIN vColors |->
              IF (i \div 3) \in hit
              THEN Blend(vColors[i],
                         IF shouldErase THEN oColors[i]
                         ELSE HexToRgb(active.color)[(i % 3) + 1],
                         StrengthAt(geo, brush, point, i \div 3))
              ELSE vColors[i]]]

\* Variant of the dual painter that writes both maps.
PaintAtPointDualBothMaps(geo, vColors, oColors, meshLabel, painArea, active, brush, mode, point, shouldErase) ==
  IF geo = NULL \/ vColors = NULL \/ oColors = NULL
     \/ (~shouldErase /\ active = NULL)
  THEN [applied |-> FALSE, meshLabelVertices |-> meshLabel,
        painAreaVertices |-> painArea]
  ELSE
    LET hit == Touched(geo, brush, point)
        Upd(m) == IF shouldErase THEN MapDelete(m, hit)
                  ELSE MapSet(m, hit, active.id)
    IN  [applied |-> TRUE,
         meshLabelVertices |-> Upd(meshLabel),
         painAreaVertices |-> Upd(painArea)]

\* Dual painter.  Result: [applied, meshLabelVertices, painAreaVertices].
PaintAtPointDual(geo, vColors, oColors, meshLabel, painArea, active, brush, mode, point, shouldErase) ==
  IF geo = NULL \/ vColors = NULL \/ oColors = NULL
     \/ (~shouldErase /\ active = NULL)
  THEN [applied |-> FALSE, meshLabelVertices |-> meshLabel,
        painAreaVertices |-> painArea]
  ELSE
    LET hit == Touched(geo, brush, point)
        Upd(m) == IF shouldErase THEN MapDelete(m, hit)
                  ELSE MapSet(m, hit, active.id)
    IN  [applied |-> TRUE,
         meshLabelVertices |->
           IF mode = "mesh-labeling" THEN Upd(meshLabel) ELSE meshLabel,
         painAreaVertices |->
           IF mode = "mesh-labeling" THEN painArea ELSE Upd(painArea)]

-----------------------------------------------------------------------------
(* Initial state: the App before any upload; no painter is mounted.        *)

Init ==
  /\ variant \in Variants
  /\ meshData = NULL
  /\ fileName = <<>>
  /\ isPainting = FALSE
  /\ isErasing = FALSE
  /\ meshDataState = NULL
  /\ appMode = "mesh-labeling"
  /\ labelClasses = <<Region1, Region2, Region3>>
  /\ activeClassId = "1"
  /\ brushSettings = DefaultBrush
  /\ geometry = NULL
  /\ vertexColors = NULL
  /\ originalColors = NULL
  /\ paintedVertices = EmptyMap
  /\ meshLabelVertices = EmptyMap
  /\ painAreaVertices = EmptyMap
  /\ isMouseDown = FALSE
  /\ isRightMouseDown = FALSE
  /\ lastPaintPoint = NULL
  /\ pending = NULL

\* Re-render with changed props: the recolor effect recomputes the buffer.
Rerender(mode, classes) ==
  /\ vertexColors' = Recolor(geometry, originalColors, paintedVertices,
                             meshLabelVertices, painAreaVertices,
                             mode, classes)
  /\ UNCHANGED <<geometry, originalColors, paintedVertices,
                 meshLabelVertices, painAreaVertices>>

Published(geo, vColors, oColors, painted, meshLabel, painArea) ==
  IF variant = "dual"
  THEN [geometry |-> geo, vertexColors |-> vColors, originalColors |-> oColors,
        meshLabelVertices |-> meshLabel, painAreaVertices |-> painArea]
  ELSE [geometry |-> geo, vertexColors |-> vColors, originalColors |-> oColors,
        paintedVertices |-> painted]

-----------------------------------------------------------------------------
(* App handlers                                                            *)

\* handleFileUpload, reader.onload, and the painter's load-mesh effect.
HandleFileUpload(file) ==
  /\ fileName' = <<file.stem, file.ext>>
  /\ meshData' = [content |-> file.positions]
  /\ isPainting' = FALSE
  /\ isErasing' = FALSE
  /\ appMode' = "mesh-labeling"
  /\ UNCHANGED <<variant, pending, labelClasses, activeClassId, brushSettings, pointerVars>>
  /\ LET loaded == LoadMeshFromFile(file)
     IN  IF loaded.ok
         THEN LET colors == InitializeVertexColors(loaded.geometry)
              IN  /\ geometry' = loaded.geometry
                  /\ originalColors' = colors
                  /\ paintedVertices' = EmptyMap
                  /\ meshLabelVertices' = EmptyMap
                  /\ painAreaVertices' = EmptyMap
                  /\ vertexColors' = Recolor(loaded.geometry, colors, EmptyMap,
                                             EmptyMap, EmptyMap, appMode',
                                             labelClasses)
                  /\ meshDataState' = Published(loaded.geometry, colors, colors,
                                                EmptyMap, EmptyMap, EmptyMap)
         ELSE /\ meshDataState' = NULL
              /\ Rerender("mesh-labeling", labelClasses)

ResetAll ==
  /\ Mounted
  /\ meshData' = NULL
  /\ fileName' = <<>>
  /\ isPainting' = FALSE
  /\ isErasing' = FALSE
  /\ meshDataState' = NULL
  /\ activeClassId' = "1"
  /\ appMode' = "mesh-labeling"
  /\ geometry' = NULL
  /\ vertexColors' = NULL
  /\ originalColors' = NULL
  /\ paintedVertices' = EmptyMap
  /\ meshLabelVertices' = EmptyMap
  /\ painAreaVertices' = EmptyMap
  /\ isMouseDown' = FALSE
  /\ isRightMouseDown' = FALSE
  /\ lastPaintPoint' = NULL
  /\ UNCHANGED <<variant, pending, labelClasses, brushSettings>>

\* "vertices painted" / "areas marked" shown in the tools panel.
GetPaintedVerticesCount ==
  IF meshDataState = NULL THEN 0
  ELSE IF variant = "blend" THEN Cardinality(DOMAIN meshDataState.paintedVertices)
  ELSE IF appMode = "mesh-labeling"
       THEN Cardinality(DOMAIN meshDataState.meshLabelVertices)
       ELSE Cardinality(DOMAIN meshDataState.painAreaVertices)

\* Variant of clearLabels that empties the maps of both modes.
ClearLabelsBothMaps ==
  /\ Mounted
  /\ GetPaintedVerticesCount > 0
  /\ meshDataState' =
       LET cleared == [meshDataState EXCEPT !.vertexColors = meshDataState.originalColors]
       IN  IF variant = "blend" THEN [cleared EXCEPT !.paintedVertices = EmptyMap]
           ELSE [cleared EXCEPT !.meshLabelVertices = EmptyMap,
                                !.painAreaVertices = EmptyMap]
  /\ UNCHANGED <<variant, pending, meshData, fileName, isPainting, isErasing, appMode,
                 labelClasses, activeClassId, brushSettings, meshVars, pointerVars>>

ClearLabels ==
  /\ Mounted
  /\ GetPaintedVerticesCount > 0
  /\ meshDataState' =
       LET cleared == [meshDataState EXCEPT !.vertexColors = meshDataState.originalColors]
       IN  IF variant = "blend" THEN [cleared EXCEPT !.paintedVertices = EmptyMap]
           ELSE IF appMode = "mesh-labeling"
                THEN [cleared EXCEPT !.meshLabelVertices = EmptyMap]
                ELSE [cleared EXCEPT !.painAreaVertices = EmptyMap]
  /\ UNCHANGED <<variant, pending, meshData, fileName, isPainting, isErasing, appMode,
                 labelClasses, activeClassId, brushSettings, meshVars, pointerVars>>

\* Variant of togglePaintMode that leaves the erase tool on.
TogglePaintModeKeepsErase ==
  /\ Mounted
  /\ variant = "dual" \/ ActiveClass # NULL \/ isPainting
  /\ IF isPainting THEN isPainting' = FALSE /\ UNCHANGED isErasing
     ELSE isPainting' = TRUE /\ UNCHANGED isErasing
  /\ UNCHANGED <<variant, pending, meshData, fileName, meshDataState, appMode,
                 labelClasses, activeClassId, brushSettings, meshVars, pointerVars>>

\* The paint button is disabled without an active class (in the dual App
\* only in mesh-labeling mode); the dual App's P key calls the handler
\* whatever the button's state.
TogglePaintMode ==
  /\ Mounted
  /\ variant = "dual" \/ ActiveClass # NULL \/ isPainting
  /\ IF isErasing THEN isErasing' = FALSE /\ isPainting' = TRUE
     ELSE IF isPainting THEN isPainting' = FALSE /\ UNCHANGED isErasing
     ELSE isPainting' = TRUE /\ UNCHANGED isErasing
  /\ UNCHANGED <<variant, pending, meshData, fileName, meshDataState, appMode,
                 labelClasses, activeClassId, brushSettings, meshVars, pointerVars>>

ToggleEraseMode ==
  /\ Mounted
  /\ IF isPainting THEN isPainting' = FALSE /\ isErasing' = TRUE
     ELSE IF isErasing THEN isErasing' = FALSE /\ UNCHANGED isPainting
     ELSE isErasing' = TRUE /\ UNCHANGED isPainting
  /\ UNCHANGED <<variant, pending, meshData, fileName, meshDataState, appMode,
                 labelClasses, activeClassId, brushSettings, meshVars, pointerVars>>

\* Variant of switchMode that starts the new mode with an empty map.
SwitchModeEmptiesMap(newMode) ==
  /\ Mounted
  /\ variant = "dual"
  /\ appMode' = newMode
  /\ isPainting' = FALSE
  /\ isErasing' = FALSE
  /\ activeClassId' = IF newMode = "pain-assessment" THEN "pain" ELSE "1"
  /\ meshLabelVertices' =
       IF newMode = "mesh-labeling" THEN EmptyMap ELSE meshLabelVertices
  /\ painAreaVertices' =
       IF newMode = "pain-assessment" THEN EmptyMap ELSE painAreaVertices
  /\ vertexColors' = Recolor(geometry, originalColors, paintedVertices,
                             meshLabelVertices', painAreaVertices',
                             newMode, labelClasses)
  /\ UNCHANGED <<variant, pending, meshData, fileName, meshDataState, labelClasses,
                 brushSettings, pointerVars, geometry, originalColors,
                 paintedVertices>>

SwitchMode(newMode) ==
  /\ Mounted
  /\ variant = "dual"
  /\ appMode' = newMode
  /\ isPainting' = FALSE
  /\ isErasing' = FALSE
  /\ activeClassId' = IF newMode = "pain-assessment" THEN "pain" ELSE "1"
  /\ Rerender(newMode, labelClasses)
  /\ UNCHANGED <<variant, pending, meshData, fileName, meshDataState, labelClasses,
                 brushSettings, pointerVars>>

\* BrushSettingsPanel.updateSetting
UpdateSetting(key, value) ==
  /\ Mounted
  /\ brushSettings' = [brushSettings EXCEPT ![key] = value]
  /\ UNCHANGED <<variant, pending, meshData, fileName, isPainting, isErasing,
                 meshDataState, appMode, labelClasses, activeClassId,
                 meshVars, pointerVars>>

\* The LabelClasses panel is rendered for a loaded file, in the dual App only
\* in mesh-labeling mode, and lists the classes that exist.
PanelShows(id) ==
  /\ Mounted
  /\ variant = "dual" => appMode = "mesh-labeling"
  /\ FindClass(labelClasses, id) # NULL

OnActiveClassChange(id) ==
  /\ PanelShows(id)
  /\ activeClassId' = id
  /\ UNCHANGED <<variant, pending, meshData, fileName, isPainting, isErasing,
                 meshDataState, appMode, labelClasses, brushSettings,
                 meshVars, pointerVars>>

\* updateClass(id, {visible: !cls.visible})
ToggleVisible(id) ==
  /\ PanelShows(id)
  /\ labelClasses' = [i \in 1..Len(labelClasses) |->
        IF labelClasses[i].id = id
        THEN [labelClasses[i] EXCEPT !.visible = ~labelClasses[i].visible]
        ELSE labelClasses[i]]
  /\ Rerender(appMode, labelClasses')
  /\ UNCHANGED <<variant, pending, meshData, fileName, isPainting, isErasing,
                 meshDataState, appMode, activeClassId, brushSettings, pointerVars>>

\* Variant of deleteClass that also drops the deleted class's map entries.
DeleteClassDropsEntries(id) ==
  /\ PanelShows(id)
  /\ labelClasses' = SelectSeq(labelClasses, LAMBDA cls : cls.id # id)
  /\ activeClassId' = IF activeClassId = id THEN NoId ELSE activeClassId
  /\ paintedVertices' =
       [v \in {w \in DOMAIN paintedVertices : paintedVertices[w] # id} |->
          paintedVertices[v]]
  /\ meshLabelVertices' =
       [v \in {w \in DOMAIN meshLabelVertices : meshLabelVertices[w] # id} |->
          meshLabelVertices[v]]
  /\ vertexColors' = Recolor(geometry, originalColors, paintedVertices',
                             meshLabelVertices', painAreaVertices,
                             appMode, labelClasses')
  /\ UNCHANGED <<variant, pending, meshData, fileName, isPainting, isErasing,
                 meshDataState, appMode, brushSettings, pointerVars,
                 geometry, originalColors, painAreaVertices>>

DeleteClass(id) ==
  /\ PanelShows(id)
  /\ labelClasses' = SelectSeq(labelClasses, LAMBDA cls : cls.id # id)
  /\ activeClassId' = IF activeClassId = id THEN NoId ELSE activeClassId
  /\ Rerender(appMode, labelClasses')
  /\ UNCHANGED <<variant, pending, meshData, fileName, isPainting, isErasing,
                 meshDataState, appMode, brushSettings, pointerVars>>

-----------------------------------------------------------------------------
(* Painter: pointer handlers on the canvas                                 *)

HandleMouseDown(button) ==
  /\ Mounted
  /\ IF button = 0 THEN isMouseDown' = TRUE /\ UNCHANGED isRightMouseDown
     ELSE IF button = 2 THEN isRightMouseDown' = TRUE /\ UNCHANGED isMouseDown
     ELSE UNCHANGED <<isMouseDown, isRightMouseDown>>
  /\ UNCHANGED <<variant, pending, appVars, meshVars, lastPaintPoint>>

\* Variant of the release handler that keeps the last sample point.
HandleMouseUpKeepsSample(button) ==
  /\ Mounted
  /\ IF button = 0
     THEN isMouseDown' = FALSE /\ UNCHANGED <<isRightMouseDown, lastPaintPoint>>
     ELSE IF button = 2
     THEN isRightMouseDown' = FALSE /\ UNCHANGED <<isMouseDown, lastPaintPoint>>
     ELSE UNCHANGED <<isMouseDown, isRightMouseDown, lastPaintPoint>>
  /\ UNCHANGED <<variant, pending, appVars, meshVars>>

HandleMouseUp(button) ==
  /\ Mounted
  /\ IF button = 0
     THEN isMouseDown' = FALSE /\ lastPaintPoint' = NULL /\ UNCHANGED isRightMouseDown
     ELSE IF button = 2
     THEN isRightMouseDown' = FALSE /\ UNCHANGED <<isMouseDown, lastPaintPoint>>
     ELSE UNCHANGED <<isMouseDown, isRightMouseDown, lastPaintPoint>>
  /\ UNCHANGED <<variant, pending, appVars, meshVars>>

-----------------------------------------------------------------------------
(* Painter: the useFrame callback.  `ray' is the point where the pointer   *)
(* ray meets the mesh, or NULL when it misses.                             *)

\* Variant of the movement test that also samples at exactly the threshold.
MovedEnoughOrEqual(point) ==
  \/ lastPaintPoint = NULL
  \/ RLeq(RMul(brushSettings.size, Rat(1, 10)), DistanceTo(lastPaintPoint, point))

\* "only paint if we've moved enough"
MovedEnough(point) ==
  \/ lastPaintPoint = NULL
  \/ RLt(RMul(brushSettings.size, Rat(1, 10)), DistanceTo(lastPaintPoint, point))

\* Variant of the dual frame test that does not look at the secondary button.
FrameAppliesDualAnyButton(point) ==
  /\ IsPaintModeActive \/ IsEraseModeActive
  /\ geometry # NULL
  /\ isMouseDown
  /\ point # NULL
  /\ MovedEnough(point)

\* The dual painter's frame applies paintAtPoint at `point'.
FrameAppliesDual(point) ==
  /\ IsPaintModeActive \/ IsEraseModeActive
  /\ geometry # NULL
  /\ isMouseDown /\ ~isRightMouseDown
  /\ point # NULL
  /\ MovedEnough(point)

\* The blend painter's frame applies paintAtPoint at `point'.
FrameAppliesBlend(point) ==
  /\ IsPaintingProp
  /\ isMouseDown \/ isRightMouseDown
  /\ geometry # NULL
  /\ point # NULL
  /\ MovedEnough(point)

ShouldEraseDual == IsEraseModeActive

\* Variant of the blend erase test that looks at the tool only.
ShouldEraseBlendToolOnly == IsErasingProp

ShouldEraseBlend == isRightMouseDown \/ IsErasingProp

UseFrameDual(ray) ==
  /\ Mounted
  /\ variant = "dual"
  /\ IF FrameAppliesDual(ray)
     THEN LET op == PaintAtPointDual(geometry, vertexColors, originalColors,
                       meshLabelVertices, painAreaVertices, ActiveClass,
                       brushSettings, appMode, ray, ShouldEraseDual)
          IN  /\ lastPaintPoint' = ray
              /\ IF op.applied
                 THEN /\ meshLabelVertices' = op.meshLabelVertices
                      /\ painAreaVertices' = op.painAreaVertices
                      /\ meshDataState' =
                           Published(geometry, vertexColors, originalColors,
                                     EmptyMap, op.meshLabelVertices,
                                     op.painAreaVertices)
                      /\ vertexColors' =
                           Recolor(geometry, originalColors, EmptyMap,
                                   op.meshLabelVertices, op.painAreaVertices,
                                   appMode, labelClasses)
                      /\ UNCHANGED <<geometry, originalColors, paintedVertices>>
                 ELSE UNCHANGED <<meshDataState, meshVars>>
     ELSE UNCHANGED <<meshDataState, meshVars, lastPaintPoint>>
  /\ UNCHANGED <<variant, pending, meshData, fileName, isPainting, isErasing, appMode,
                 labelClasses, activeClassId, brushSettings,
                 isMouseDown, isRightMouseDown>>

UseFrameBlend(ray) ==
  /\ Mounted
  /\ variant = "blend"
  /\ IF FrameAppliesBlend(ray)
     THEN LET op == PaintAtPointBlend(geometry, vertexColors, originalColors,
                       paintedVertices, ActiveClass, brushSettings, ray,
                       ShouldEraseBlend)
          IN  /\ lastPaintPoint' = ray
              /\ IF op.applied
                 THEN /\ paintedVertices' = op.paintedVertices
                      /\ meshDataState' =
                           Published(geometry, op.newColors, originalColors,
                                     op.paintedVertices, EmptyMap, EmptyMap)
                      /\ vertexColors' =
                           Recolor(geometry, originalColors, op.paintedVertices,
                                   EmptyMap, EmptyMap, appMode, labelClasses)
                      /\ UNCHANGED <<geometry, originalColors,
                                     meshLabelVertices, painAreaVertices>>
                 ELSE UNCHANGED <<meshDataState, meshVars>>
     ELSE UNCHANGED <<meshDataState, meshVars, lastPaintPoint>>
  /\ UNCHANGED <<variant, pending, meshData, fileName, isPainting, isErasing, appMode,
                 labelClasses, activeClassId, brushSettings,
                 isMouseDown, isRightMouseDown>>

-----------------------------------------------------------------------------
(* Specification                                                           *)

\* Sessions worked with the primary button: every sidebar control, the
\* pointer pressed and released on the canvas, frames.
Next ==
  \/ \E file \in Uploads : HandleFileUpload(file)
  \/ ResetAll
  \/ ClearLabels
  \/ TogglePaintMode
  \/ ToggleEraseMode
  \/ \E newMode \in {"mesh-labeling", "pain-assessment"} : SwitchMode(newMode)
  \/ \E value \in Sizes : UpdateSetting("size", value)
  \/ \E value \in Strengths : UpdateSetting("strength", value)
  \/ \E value \in Falloffs : UpdateSetting("falloff", value)
  \/ \E id \in SelectIds : OnActiveClassChange(id)
  \/ \E id \in EditIds : ToggleVisible(id)
  \/ \E id \in EditIds : DeleteClass(id)
  \/ HandleMouseDown(0)
  \/ HandleMouseUp(0)
  \/ \E ray \in Hits \cup {NULL} : UseFrameDual(ray)
  \/ \E ray \in Hits \cup {NULL} : UseFrameBlend(ray)

Spec == Init /\ [][Next]_vars

\* Strokes with both buttons, at the default strength and falloff: uploads,
\* reset, the tool buttons, the mode switch, the size slider, deleting a
\* class, both pointer buttons, frames over three hit points.
NextStroke ==
  \/ \E file \in Uploads : HandleFileUpload(file)
  \/ ResetAll
  \/ TogglePaintMode
  \/ ToggleEraseMode
  \/ \E newMode \in {"mesh-labeling", "pain-assessment"} : SwitchMode(newMode)
  \/ \E value \in Sizes : UpdateSetting("size", value)
  \/ \E id \in EditIds : DeleteClass(id)
  \/ \E button \in {0, 2} : HandleMouseDown(button)
  \/ \E button \in {0, 2} : HandleMouseUp(button)
  \/ \E ray \in StrokeHits \cup {NULL} : UseFrameDual(ray)
  \/ \E ray \in StrokeHits \cup {NULL} : UseFrameBlend(ray)

SpecStroke == Init /\ [][NextStroke]_vars

-----------------------------------------------------------------------------
(* Vocabulary of the properties                                            *)

\* The assignment map of the current mode.
ActiveMap ==
  IF variant = "blend" THEN paintedVertices
  ELSE IF appMode = "mesh-labeling" THEN meshLabelVertices
  ELSE painAreaVertices

Vertices == IF geometry = NULL THEN {} ELSE DOMAIN geometry

\* Vertices whose distance to point p is at most the brush size.
Within(p) ==
  {v \in Vertices : RLeq(DistanceTo(geometry[v], p), brushSettings.size)}

ColorOf(buffer, v) == <<buffer[3 * v], buffer[3 * v + 1], buffer[3 * v + 2]>>
Gray == <<BaselineGray, BaselineGray, BaselineGray>>

NoAssignments ==
  /\ geometry # NULL
  /\ paintedVertices = EmptyMap
  /\ meshLabelVertices = EmptyMap
  /\ painAreaVertices = EmptyMap

\* This step is a frame in which the painter calls paintAtPoint(p, erase).
OpAt(p, erase) ==
  \/ /\ UseFrameDual(p)
     /\ FrameAppliesDual(p)
     /\ ShouldEraseDual = erase
  \/ /\ UseFrameBlend(p)
     /\ FrameAppliesBlend(p)
     /\ ShouldEraseBlend = erase

AllHits == Hits \cup StrokeHits

-----------------------------------------------------------------------------
(* C1 *)

C1_Pre ==
  /\ NoAssignments
  /\ ActiveClass # NULL
  /\ brushSettings.falloff = "constant"
  /\ brushSettings.strength = ROne

C1_Post(p) ==
  /\ ActiveMap' = [v \in Within(p) |-> ActiveClass.id]
  /\ \A v \in Vertices :
       ColorOf(vertexColors', v) =
         IF v \in Within(p) THEN HexToRgb(ActiveClass.color) ELSE Gray

\* C1 as stated: on a mesh with no assignments, one paint operation at p with
\* an active class A, constant falloff and strength 1 leaves the active map
\* holding exactly the vertices within the brush size of p, all mapped to A,
\* those vertices coloured A's RGB and every other vertex baseline gray.
C1_AsStated ==
  [][\A p \in AllHits : (OpAt(p, FALSE) /\ C1_Pre) => C1_Post(p)]_vars

\* C1, amended: the same, for an active class A that is visible.
C1_VisibleClass ==
  [][\A p \in AllHits :
       (OpAt(p, FALSE) /\ C1_Pre /\ ActiveClass.visible) => C1_Post(p)]_vars

\* A first operation with a visible class, constant falloff and strength 1
\* has covered the vertex under the pointer and the one on the brush edge.
C1_Witness ==
  /\ geometry # NULL
  /\ ActiveClass # NULL
  /\ ActiveClass.visible
  /\ brushSettings = [size |-> Rat(1, 10), strength |-> ROne, falloff |-> "constant"]
  /\ lastPaintPoint = HitOnVertex
  /\ Within(HitOnVertex) = {1, 2}
  /\ ActiveMap = [v \in {1, 2} |-> ActiveClass.id]
  /\ ColorOf(vertexColors, 2) = HexToRgb(ActiveClass.color)
  /\ ColorOf(vertexColors, 0) = Gray

-----------------------------------------------------------------------------
(* C2 *)

\* C2: in the dual painter every paint or erase operation leaves the map of
\* the other mode with exactly the entries it had.
C2_OtherMapUntouched ==
  [][\A p \in AllHits, erase \in BOOLEAN :
       (variant = "dual" /\ OpAt(p, erase)) =>
         IF appMode = "mesh-labeling"
         THEN painAreaVertices' = painAreaVertices
         ELSE meshLabelVertices' = meshLabelVertices]_vars

\* A pain-area operation has covered two vertices while the mesh-label map
\* still holds the single vertex labelled before.
C2_Witness ==
  /\ variant = "dual"
  /\ appMode = "pain-assessment"
  /\ lastPaintPoint = HitOnVertex
  /\ meshLabelVertices = [v \in {1} |-> "1"]
  /\ painAreaVertices = [v \in {1, 2} |-> "pain"]

-----------------------------------------------------------------------------
(* C3 *)

\* Vertices on which the brush at p has a strength above zero.
Affected(p) ==
  {v \in Within(p) :
     \/ brushSettings.falloff = "constant"
     \/ RLt(DistanceTo(geometry[v], p), brushSettings.size)}

\* C3: a paint operation with no active class changes no map, no colour and
\* publishes nothing; an erase operation with no active class still removes
\* the vertices the brush affects from the active map.
C3_NoClass ==
  [][\A p \in AllHits :
       /\ (OpAt(p, FALSE) /\ ActiveClass = NULL) =>
            UNCHANGED <<paintedVertices, meshLabelVertices, painAreaVertices,
                        vertexColors, meshDataState>>
       /\ (OpAt(p, TRUE) /\ ActiveClass = NULL) =>
            /\ ActiveMap' = MapDelete(ActiveMap, Affected(p))
            /\ meshDataState' # NULL]_vars

\* A frame has sampled the vertex with the paint tool on and no active class,
\* and nothing is assigned.
C3_Witness ==
  /\ ActiveClass = NULL
  /\ isPainting
  /\ isMouseDown
  /\ lastPaintPoint = HitOnVertex
  /\ NoAssignments
  /\ meshDataState.vertexColors = originalColors

\* An erase with no active class has emptied a map that held a vertex: the
\* published maps are empty, the published colours are not all baseline.
C3_WitnessErase ==
  /\ ActiveClass = NULL
  /\ isErasing
  /\ lastPaintPoint = HitOnVertex
  /\ NoAssignments
  /\ meshDataState.vertexColors # originalColors

-----------------------------------------------------------------------------
(* Vocabulary of the stroke properties                                     *)

\* This step is a scene tick whose ray meets the mesh at r (NULL: a miss).
Tick(r) == UseFrameDual(r) \/ UseFrameBlend(r)

ToolActive == isPainting \/ isErasing

\* lastSamplePoint is none, or p is more than 0.1 * brush size away from it.
FarEnough(p) ==
  \/ lastPaintPoint = NULL
  \/ RLt(brushSettings.size, RMul(Rat(10, 1), DistanceTo(lastPaintPoint, p)))

NothingApplied ==
  UNCHANGED <<paintedVertices, meshLabelVertices, painAreaVertices,
              vertexColors, meshDataState, lastPaintPoint>>

\* The active map after one operation at p.
MapAfter(p, erase) ==
  IF erase THEN MapDelete(ActiveMap, Affected(p))
  ELSE IF ActiveClass = NULL THEN ActiveMap
  ELSE MapSet(ActiveMap, Affected(p), ActiveClass.id)

\* The step applies one paint or erase operation at p and records p.
OneOpAt(p) ==
  /\ lastPaintPoint' = p
  /\ ActiveMap' = MapAfter(p, TRUE) \/ ActiveMap' = MapAfter(p, FALSE)

\* The buttons under which a variant's frame samples.
Sampling ==
  IF variant = "dual" THEN isMouseDown /\ ~isRightMouseDown
  ELSE isMouseDown \/ isRightMouseDown

-----------------------------------------------------------------------------
(* C4 *)

\* C4 as stated: with the primary button down and a tool active, a tick that
\* hits the mesh at p applies one operation at p and records p if and only if
\* lastSamplePoint is none or further than 0.1 * brush size from p; every
\* other tick (too close, a miss, primary button up, no tool) changes nothing.
C4_AsStated ==
  [][\A r \in AllHits \cup {NULL} :
       Tick(r) =>
         IF isMouseDown /\ ToolActive /\ r # NULL /\ FarEnough(r)
         THEN OneOpAt(r)
         ELSE NothingApplied]_vars

\* C4, amended: the same with "Down" read per variant: in the dual painter
\* the primary button down and the secondary button up, in the blend painter
\* either button down.
C4_PerVariantButtons ==
  [][\A r \in AllHits \cup {NULL} :
       Tick(r) =>
         IF Sampling /\ ToolActive /\ r # NULL /\ FarEnough(r)
         THEN OneOpAt(r)
         ELSE NothingApplied]_vars

\* Two samples of one stroke: the vertex was painted and the pointer has
\* moved on to a far point, with the brush size at which the next hit point
\* lies exactly at the threshold.
C4_Witness ==
  /\ isMouseDown
  /\ ~isRightMouseDown
  /\ isPainting
  /\ lastPaintPoint = HitFar
  /\ brushSettings.size = Rat(1, 10)
  /\ DistanceTo(HitFar, HitNear) = RMul(brushSettings.size, Rat(1, 10))
  /\ DOMAIN ActiveMap = {1}

-----------------------------------------------------------------------------
(* C5 *)

C5_Release ==
  HandleMouseUp(0) =>
    /\ ~isMouseDown'
    /\ lastPaintPoint' = NULL
    /\ UNCHANGED <<paintedVertices, meshLabelVertices, painAreaVertices,
                   vertexColors, meshDataState>>

\* C5 as stated: a primary-button release leaves the pointer up and
\* lastSamplePoint none, keeps what the stroke has assigned or erased, and no
\* tick applies an operation while the primary button is up.
C5_AsStated ==
  [][/\ C5_Release
     /\ \A r \in AllHits \cup {NULL} :
          (Tick(r) /\ ~isMouseDown) => NothingApplied]_vars

\* C5, amended: the same, except that in the blend painter ticks go on
\* applying operations while the secondary button is held.
C5_UnlessSecondaryInBlend ==
  [][/\ C5_Release
     /\ \A r \in AllHits \cup {NULL} :
          (Tick(r) /\ ~isMouseDown /\ ~(variant = "blend" /\ isRightMouseDown))
            => NothingApplied]_vars

\* After a release in the middle of a stroke: pointer up, no sample point,
\* the tool still on, the painted vertex still assigned.
C5_Witness ==
  /\ ~isMouseDown
  /\ ~isRightMouseDown
  /\ lastPaintPoint = NULL
  /\ isPainting
  /\ DOMAIN ActiveMap = {1}
  /\ ColorOf(vertexColors, 1) # Gray

-----------------------------------------------------------------------------
(* C6 *)

\* C6 as stated: after a file is loaded while a painter is mounted, and after
\* a reset, the pointer is up and lastSamplePoint is none.
C6_AsStated ==
  [][((\E file \in Uploads : HandleFileUpload(file) /\ Mounted) \/ ResetAll)
       => (~isMouseDown' /\ lastPaintPoint' = NULL)]_vars

-----------------------------------------------------------------------------
(* C7 *)

\* C7: in the dual painter a tick while the secondary button is held applies
\* nothing: maps, colours, published data and lastSamplePoint are unchanged.
C7_SecondaryIgnoresTicks ==
  [][\A r \in AllHits \cup {NULL} :
       (variant = "dual" /\ Tick(r) /\ isRightMouseDown) => NothingApplied]_vars

\* Both buttons held over the mesh with the paint tool on and a class to
\* paint with, and still nothing sampled and nothing assigned.
C7_Witness ==
  /\ variant = "dual"
  /\ isMouseDown
  /\ isRightMouseDown
  /\ isPainting
  /\ ActiveClass # NULL
  /\ lastPaintPoint = NULL
  /\ NoAssignments

-----------------------------------------------------------------------------
(* C8 *)

\* C8: in the blend painter, with the secondary button held and a tool on,
\* a tick that applies an operation at p applies an erase: the map loses the
\* vertices the brush affects and gains none, whatever the tool and class.
C8_SecondaryErases ==
  [][\A r \in AllHits :
       (variant = "blend" /\ Tick(r) /\ isRightMouseDown /\ ToolActive
          /\ FarEnough(r))
         => /\ paintedVertices' = MapDelete(paintedVertices, Affected(r))
            /\ lastPaintPoint' = r]_vars

\* The secondary button is held with the paint tool on, the vertex under the
\* pointer was sampled, and the vertex painted before is no longer assigned.
C8_Witness ==
  /\ variant = "blend"
  /\ isRightMouseDown
  /\ isPainting
  /\ lastPaintPoint = HitOnVertex
  /\ paintedVertices = EmptyMap
  /\ meshDataState.vertexColors # originalColors

-----------------------------------------------------------------------------
(* C9 *)

\* The blend painter's state after a paint at p and then an erase at p, each
\* followed by the recolor effect, started from the current state.
RoundTrip(p) ==
  LET paint == PaintAtPointBlend(geometry, vertexColors, originalColors,
                                 paintedVertices, ActiveClass, brushSettings,
                                 p, FALSE)
      settled == Recolor(geometry, originalColors, paint.paintedVertices,
                         EmptyMap, EmptyMap, appMode, labelClasses)
      erase == PaintAtPointBlend(geometry, settled, originalColors,
                                 paint.paintedVertices, ActiveClass,
                                 brushSettings, p, TRUE)
  IN  [paintedVertices |-> erase.paintedVertices,
       published |-> erase.newColors,
       vertexColors |-> Recolor(geometry, originalColors, erase.paintedVertices,
                                EmptyMap, EmptyMap, appMode, labelClasses)]

\* Constant falloff, strength 1, and a brush that covers only vertex 1.
C9_Pre ==
  /\ variant = "blend"
  /\ geometry # NULL
  /\ ActiveClass # NULL
  /\ brushSettings.falloff = "constant"
  /\ brushSettings.strength = ROne
  /\ Within(HitOnVertex) = {1}

C9_Restored(rt) ==
  /\ ColorOf(rt.vertexColors, 1) = ColorOf(originalColors, 1)
  /\ ColorOf(rt.published, 1) = ColorOf(originalColors, 1)
  /\ 1 \notin DOMAIN rt.paintedVertices

C9_AsBefore(rt) ==
  /\ rt.paintedVertices = paintedVertices
  /\ rt.vertexColors = vertexColors

\* C9 as stated: painting a vertex and then erasing it (constant falloff,
\* strength 1, brush covering only that vertex) leaves its colour at the
\* baseline and the vertex out of the map, and the map and the colour buffer
\* equal to what they were before the paint.
C9_AsStated ==
  C9_Pre => LET rt == RoundTrip(HitOnVertex)
            IN  C9_Restored(rt) /\ C9_AsBefore(rt)

\* C9, amended: the vertex ends at the baseline colour and out of the map;
\* map and buffer equal their values before the paint when the vertex was
\* not assigned before the paint.
C9_IfUnassignedBefore ==
  C9_Pre => LET rt == RoundTrip(HitOnVertex)
            IN  /\ C9_Restored(rt)
                /\ 1 \notin DOMAIN paintedVertices => C9_AsBefore(rt)

\* The erase tool has just sampled the vertex with such a brush: nothing is
\* assigned and the buffer and the published colours are the baseline.
C9_Witness ==
  /\ C9_Pre
  /\ ActiveClass.visible
  /\ isErasing
  /\ isMouseDown
  /\ lastPaintPoint = HitOnVertex
  /\ paintedVertices = EmptyMap
  /\ vertexColors = originalColors
  /\ meshDataState.vertexColors = originalColors
  /\ meshDataState.paintedVertices = EmptyMap

-----------------------------------------------------------------------------
(* C10 *)

BlendedColor(v, strength) ==
  LET target == HexToRgb(ActiveClass.color)
  IN  <<Blend(vertexColors[3 * v], target[1], strength),
        Blend(vertexColors[3 * v + 1], target[2], strength),
        Blend(vertexColors[3 * v + 2], target[3], strength)>>

PartialStrength(p, v) ==
  LET s == StrengthAt(geometry, brushSettings, p, v)
  IN  RLt(RZero, s) /\ RLt(s, ROne)

\* C10 as stated: in the blend painter, after a paint operation that hits a
\* vertex with strength s, 0 < s < 1, the vertex's colour once the
\* operation's state updates have settled is current + (class - current) * s.
C10_AsStated ==
  [][\A p \in AllHits :
       (variant = "blend" /\ OpAt(p, FALSE) /\ ActiveClass # NULL) =>
         \A v \in Affected(p) :
           PartialStrength(p, v) =>
             ColorOf(vertexColors', v) =
               BlendedColor(v, StrengthAt(geometry, brushSettings, p, v))]_vars

\* What the blend painter does: the blended value is what it publishes; the
\* buffer it keeps holds the full class colour, or the baseline for a class
\* that is hidden.
C10_Observed ==
  [][\A p \in AllHits :
       (variant = "blend" /\ OpAt(p, FALSE) /\ ActiveClass # NULL) =>
         \A v \in Affected(p) :
           /\ ColorOf(meshDataState'.vertexColors, v) =
                BlendedColor(v, StrengthAt(geometry, brushSettings, p, v))
           /\ ColorOf(vertexColors', v) =
                IF ActiveClass.visible THEN HexToRgb(ActiveClass.color)
                ELSE ColorOf(originalColors, v)]_vars

-----------------------------------------------------------------------------
(* C11 *)

FadedColor(v, strength) ==
  <<Blend(vertexColors[3 * v], originalColors[3 * v], strength),
    Blend(vertexColors[3 * v + 1], originalColors[3 * v + 1], strength),
    Blend(vertexColors[3 * v + 2], originalColors[3 * v + 2], strength)>>

\* C11 as stated: in the blend painter an erase operation that hits a
\* painted vertex with strength s, 0 < s < 1, removes the vertex from the map
\* and leaves its colour at current + (original - current) * s.
C11_AsStated ==
  [][\A p \in AllHits :
       (variant = "blend" /\ OpAt(p, TRUE)) =>
         \A v \in Affected(p) \cap DOMAIN paintedVertices :
           PartialStrength(p, v) =>
             /\ v \notin DOMAIN paintedVertices'
             /\ ColorOf(vertexColors', v) =
                  FadedColor(v, StrengthAt(geometry, brushSettings, p, v))]_vars

\* What the blend painter does: the vertex leaves the map, the faded value
\* is what it publishes, and the buffer it keeps is back at the baseline.
C11_Observed ==
  [][\A p \in AllHits :
       (variant = "blend" /\ OpAt(p, TRUE)) =>
         \A v \in Affected(p) \cap DOMAIN paintedVertices :
           /\ v \notin DOMAIN paintedVertices'
           /\ ColorOf(meshDataState'.vertexColors, v) =
                FadedColor(v, StrengthAt(geometry, brushSettings, p, v))
           /\ ColorOf(vertexColors', v) = ColorOf(originalColors, v)]_vars

-----------------------------------------------------------------------------
(* C12 *)

\* The colour the published maps call for at vertex v: the pain colour for a
\* vertex of the pain-area map, else the colour of the visible, existing
\* class the mesh-label map assigns, else the baseline.
PublishedMapsColor(v) ==
  LET pub == meshDataState
      labelClass == IF v \in DOMAIN pub.meshLabelVertices
                    THEN FindClass(labelClasses, pub.meshLabelVertices[v])
                    ELSE NULL
  IN  IF v \in DOMAIN pub.painAreaVertices /\ painClass.visible
      THEN HexToRgb(painClass.color)
      ELSE IF labelClass # NULL /\ labelClass.visible
      THEN HexToRgb(labelClass.color)
      ELSE ColorOf(pub.originalColors, v)

\* C12 as stated: in the dual painter the published colour buffer reflects
\* the published maps: a vertex the maps assign to a visible, existing class
\* has that class's colour, a vertex in neither map has its baseline colour.
C12_AsStated ==
  (variant = "dual" /\ meshDataState # NULL) =>
    \A v \in DOMAIN meshDataState.geometry :
      (\/ v \in DOMAIN meshDataState.painAreaVertices
       \/ v \notin DOMAIN meshDataState.meshLabelVertices
       \/ LET c == FindClass(labelClasses, meshDataState.meshLabelVertices[v])
          IN  c # NULL /\ c.visible)
        => ColorOf(meshDataState.vertexColors, v) = PublishedMapsColor(v)

\* What the dual painter publishes with the maps of an operation: the buffer
\* it held before the operation.
C12_Observed ==
  [][\A p \in AllHits, erase \in BOOLEAN :
       (variant = "dual" /\ OpAt(p, erase) /\ (erase \/ ActiveClass # NULL)) =>
         /\ meshDataState'.vertexColors = vertexColors
         /\ meshDataState'.meshLabelVertices = meshLabelVertices'
         /\ meshDataState'.painAreaVertices = painAreaVertices']_vars

-----------------------------------------------------------------------------
(* The recolor effect of the dual painter as a function of its props and   *)
(* maps                                                                    *)

LoadedA == LoadMeshFromFile(FileA).geometry

\* Maps the effect is run on: any set of vertices of the loaded mesh, each
\* assigned one of two label classes / the pain class.
LabelIds == {"1", "2"}
MeshLabelMaps == UNION {[S -> LabelIds] : S \in SUBSET DOMAIN LoadedA}
PainAreaMaps == UNION {[S -> {"pain"}] : S \in SUBSET DOMAIN LoadedA}

\* labelClasses prop: the default classes, each of the first two shown or
\* hidden.
ClassLists ==
  {<<[Region1 EXCEPT !.visible = a], [Region2 EXCEPT !.visible = b], Region3>> :
     a \in BOOLEAN, b \in BOOLEAN}

\* painClass prop: shown or hidden.
PainProps == {[painClass EXCEPT !.visible = a] : a \in BOOLEAN}

InitRecolor ==
  /\ variant = "dual"
  /\ meshData = [content |-> FileA.positions]
  /\ fileName = <<FileA.stem, FileA.ext>>
  /\ isPainting = FALSE
  /\ isErasing = FALSE
  /\ meshDataState = NULL
  /\ appMode = "mesh-labeling"
  /\ labelClasses \in ClassLists
  /\ activeClassId = "1"
  /\ brushSettings = DefaultBrush
  /\ geometry = LoadedA
  /\ originalColors = InitializeVertexColors(LoadedA)
  /\ vertexColors = originalColors
  /\ paintedVertices = EmptyMap
  /\ meshLabelVertices \in MeshLabelMaps
  /\ painAreaVertices \in PainAreaMaps
  /\ isMouseDown = FALSE
  /\ isRightMouseDown = FALSE
  /\ lastPaintPoint = NULL
  /\ pending = NULL

\* One run of the recolor effect with the given painClass prop.
RecomputeColors(pain) ==
  /\ geometry # NULL /\ vertexColors # NULL /\ originalColors # NULL
  /\ vertexColors' = RecolorDual(originalColors, meshLabelVertices,
                                 painAreaVertices, labelClasses, pain)
  /\ UNCHANGED <<variant, pending, appVars, pointerVars, geometry, originalColors,
                 paintedVertices, meshLabelVertices, painAreaVertices>>

NextRecolor == \E pain \in PainProps : RecomputeColors(pain)

SpecRecolor == InitRecolor /\ [][NextRecolor]_vars

-----------------------------------------------------------------------------
(* C13 *)

\* Colour the mesh-label layer alone gives vertex v: the colour of its
\* visible, existing class, else the baseline.
LabelLayerColor(v) ==
  LET c == IF v \in DOMAIN meshLabelVertices
           THEN FindClass(labelClasses, meshLabelVertices[v])
           ELSE NULL
  IN  IF c # NULL /\ c.visible THEN HexToRgb(c.color)
      ELSE ColorOf(originalColors, v)

\* C13: the recompute applies the mesh-label map first and the pain-area map
\* last: a vertex in both maps whose two classes are visible gets the pain
\* colour; when the pain class is not visible the vertex shows its mesh-label
\* colour, or the baseline when that class is hidden.
C13_PainLast ==
  [][\A pain \in PainProps :
       RecomputeColors(pain) =>
         \A v \in DOMAIN meshLabelVertices \cap DOMAIN painAreaVertices :
           /\ (pain.visible
                 /\ FindClass(labelClasses, meshLabelVertices[v]).visible)
                => ColorOf(vertexColors', v) = HexToRgb(pain.color)
           /\ ~pain.visible
                => ColorOf(vertexColors', v) = LabelLayerColor(v)]_vars

\* A vertex of both maps whose label class is visible and differently
\* coloured shows the pain colour after a recompute.
C13_Witness ==
  \E v \in DOMAIN meshLabelVertices \cap DOMAIN painAreaVertices :
    /\ vertexColors # originalColors
    /\ meshLabelVertices[v] = "2"
    /\ FindClass(labelClasses, "2").visible
    /\ ColorOf(vertexColors, v) = HexToRgb(painClass.color)
    /\ ColorOf(vertexColors, v) # HexToRgb(Region2.color)

\* A vertex of both maps shows its label colour after a recompute with the
\* pain class hidden.
C13_WitnessHidden ==
  \E v \in DOMAIN meshLabelVertices \cap DOMAIN painAreaVertices :
    /\ meshLabelVertices[v] = "2"
    /\ FindClass(labelClasses, "2").visible
    /\ ColorOf(vertexColors, v) = HexToRgb(Region2.color)

-----------------------------------------------------------------------------
(* C14 *)

\* The map that holds label-class assignments.
LabelMap == IF variant = "dual" THEN meshLabelVertices ELSE paintedVertices

AssignedTo(id) == {v \in DOMAIN LabelMap : LabelMap[v] = id}

\* The layer above the label layer: the pain colour of the dual painter.
PainOver(v) == variant = "dual" /\ v \in DOMAIN painAreaVertices

C14_WitnessHidden ==
  \E v \in Vertices :
    /\ v \in DOMAIN LabelMap
    /\ LabelMap[v] = "1"
    /\ FindClass(labelClasses, "1") # NULL
    /\ ~FindClass(labelClasses, "1").visible
    /\ ~PainOver(v)
    /\ ColorOf(vertexColors, v) = Gray

-----------------------------------------------------------------------------
(* C15 *)

\* The map of the mode that is not active, in the session state s.
OtherModeMap(s) ==
  IF appMode = "mesh-labeling" THEN s.painAreaVertices ELSE s.meshLabelVertices

\* C15: clear empties the map of the active mode only: after it the count
\* shown for the active mode is 0 and the map of the other mode has exactly
\* the entries it had before.
C15_ClearActiveOnly ==
  [][(variant = "dual" /\ ClearLabels) =>
       /\ GetPaintedVerticesCount' = 0
       /\ OtherModeMap(meshDataState') = OtherModeMap(meshDataState)
       /\ OtherModeMap([meshLabelVertices |-> meshLabelVertices',
                        painAreaVertices |-> painAreaVertices']) =
            OtherModeMap([meshLabelVertices |-> meshLabelVertices,
                          painAreaVertices |-> painAreaVertices])]_vars

\* After a clear in mesh-labeling mode: no label is counted, the pain-area
\* map still has its entries.
C15_Witness ==
  /\ variant = "dual"
  /\ meshDataState # NULL
  /\ appMode = "mesh-labeling"
  /\ GetPaintedVerticesCount = 0
  /\ meshLabelVertices # EmptyMap
  /\ meshDataState.painAreaVertices # EmptyMap
  /\ meshDataState.painAreaVertices = painAreaVertices

-----------------------------------------------------------------------------
(* C16 *)

Modes == {"mesh-labeling", "pain-assessment"}

\* The map of mode m in the session state s.
ModeMap(s, m) ==
  IF m = "mesh-labeling" THEN s.meshLabelVertices ELSE s.painAreaVertices

\* C16: a mode switch changes neither assignment map, in the painter and in
\* the session state, and the count shown in the mode switched to is the
\* size of that mode's own map.
C16_SwitchKeepsMaps ==
  [][\A m \in Modes :
       SwitchMode(m) =>
         /\ meshLabelVertices' = meshLabelVertices
         /\ painAreaVertices' = painAreaVertices
         /\ meshDataState' = meshDataState
         /\ GetPaintedVerticesCount' =
              IF meshDataState = NULL THEN 0
              ELSE Cardinality(DOMAIN ModeMap(meshDataState, m))]_vars

\* Pain-assessment mode entered with labels painted before: the labels are
\* kept and the count shown is that of the empty pain-area map.
C16_Witness ==
  /\ variant = "dual"
  /\ appMode = "pain-assessment"
  /\ meshDataState # NULL
  /\ meshLabelVertices # EmptyMap
  /\ meshDataState.meshLabelVertices = meshLabelVertices
  /\ painAreaVertices = EmptyMap
  /\ GetPaintedVerticesCount = 0

-----------------------------------------------------------------------------
(* Frame ticks whose state writes are still queued                          *)
(*                                                                         *)
(* paintAtPoint reads the maps from the closure of the last committed      *)
(* render and hands the new maps to the state setters; the setters queue   *)
(* the value, and the component sees it only after the next render.  The   *)
(* frame loop runs on its own clock, so a tick can fire in between.        *)

HitOnLast == Vec(ROne, RZero, RZero)
TickHits == {HitOnVertex, HitOnLast}

\* A tick: the frame callback of the last committed render runs and queues
\* its writes (a later queued value replaces an earlier one); the ref
\* lastPaintPoint is written at once.
FrameQueued(ray) ==
  /\ Mounted
  /\ IF (IF variant = "dual" THEN FrameAppliesDual(ray)
         ELSE FrameAppliesBlend(ray))
     THEN
       /\ lastPaintPoint' = ray
       /\ IF variant = "dual"
          THEN LET op == PaintAtPointDual(geometry, vertexColors, originalColors,
                            meshLabelVertices, painAreaVertices, ActiveClass,
                            brushSettings, appMode, ray, ShouldEraseDual)
               IN  IF op.applied
                   THEN pending' =
                          [paintedVertices |-> paintedVertices,
                           meshLabelVertices |-> op.meshLabelVertices,
                           painAreaVertices |-> op.painAreaVertices,
                           meshDataState |->
                             Published(geometry, vertexColors, originalColors,
                                       EmptyMap, op.meshLabelVertices,
                                       op.painAreaVertices)]
                   ELSE UNCHANGED pending
          ELSE LET op == PaintAtPointBlend(geometry, vertexColors, originalColors,
                            paintedVertices, ActiveClass, brushSettings, ray,
                            ShouldEraseBlend)
               IN  IF op.applied
                   THEN pending' =
                          [paintedVertices |-> op.paintedVertices,
                           meshLabelVertices |-> meshLabelVertices,
                           painAreaVertices |-> painAreaVertices,
                           meshDataState |->
                             Published(geometry, op.newColors, originalColors,
                                       op.paintedVertices, EmptyMap, EmptyMap)]
                   ELSE UNCHANGED pending
     ELSE UNCHANGED <<pending, lastPaintPoint>>
  /\ UNCHANGED <<variant, appVars, meshVars, isMouseDown, isRightMouseDown>>

\* The render that commits the queued writes; the recolor effect runs after
\* it.
CommitRender ==
  /\ pending # NULL
  /\ paintedVertices' = pending.paintedVertices
  /\ meshLabelVertices' = pending.meshLabelVertices
  /\ painAreaVertices' = pending.painAreaVertices
  /\ meshDataState' = pending.meshDataState
  /\ vertexColors' = Recolor(geometry, originalColors, pending.paintedVertices,
                             pending.meshLabelVertices, pending.painAreaVertices,
                             appMode, labelClasses)
  /\ pending' = NULL
  /\ UNCHANGED <<variant, meshData, fileName, isPainting, isErasing, appMode,
                 labelClasses, activeClassId, brushSettings, geometry,
                 originalColors, pointerVars>>

\* Controls are used between renders; ticks and renders interleave freely.
NextTicks ==
  \/ pending = NULL /\ \E file \in Uploads : HandleFileUpload(file)
  \/ pending = NULL /\ TogglePaintMode
  \/ pending = NULL /\ ToggleEraseMode
  \/ pending = NULL /\ \E m \in {"mesh-labeling", "pain-assessment"} : SwitchMode(m)
  \/ pending = NULL /\ HandleMouseDown(0)
  \/ pending = NULL /\ HandleMouseUp(0)
  \/ \E ray \in TickHits : FrameQueued(ray)
  \/ CommitRender

SpecTicks == Init /\ [][NextTicks]_vars

-----------------------------------------------------------------------------
(* C17 *)

\* The maps left by the operation applied last: the queued ones if a tick's
\* writes are still queued, else the committed ones.
LatestMaps ==
  IF pending # NULL THEN pending
  ELSE [paintedVertices |-> paintedVertices,
        meshLabelVertices |-> meshLabelVertices,
        painAreaVertices |-> painAreaVertices]

\* The maps a tick at ray leaves when it starts from the maps `from'.
MapsAfterTick(from, ray) ==
  IF variant = "dual"
  THEN LET op == PaintAtPointDual(geometry, vertexColors, originalColors,
                    from.meshLabelVertices, from.painAreaVertices, ActiveClass,
                    brushSettings, appMode, ray, ShouldEraseDual)
       IN  [paintedVertices |-> from.paintedVertices,
            meshLabelVertices |-> op.meshLabelVertices,
            painAreaVertices |-> op.painAreaVertices]
  ELSE LET op == PaintAtPointBlend(geometry, vertexColors, originalColors,
                    from.paintedVertices, ActiveClass, brushSettings, ray,
                    ShouldEraseBlend)
       IN  [paintedVertices |-> op.paintedVertices,
            meshLabelVertices |-> from.meshLabelVertices,
            painAreaVertices |-> from.painAreaVertices]

MapsOf(s) ==
  [paintedVertices |-> s.paintedVertices,
   meshLabelVertices |-> s.meshLabelVertices,
   painAreaVertices |-> s.painAreaVertices]

\* C17 as stated: operations take effect in tick order with no lost
\* update: each applied operation starts from the maps left by the previous
\* one, also when the previous tick's writes are not yet committed.
C17_AsStated ==
  [][\A ray \in TickHits :
       (FrameQueued(ray) /\ pending' # pending) =>
         MapsOf(pending') = MapsAfterTick(LatestMaps, ray)]_vars

\* What the painters do: each operation starts from the committed maps.
C17_Observed ==
  [][\A ray \in TickHits :
       (FrameQueued(ray) /\ pending' # pending) =>
         MapsOf(pending') =
           MapsAfterTick([paintedVertices |-> paintedVertices,
                          meshLabelVertices |-> meshLabelVertices,
                          painAreaVertices |-> painAreaVertices], ray)]_vars

-----------------------------------------------------------------------------
(* Loading files of every kind, with painting in between                   *)

NextLoad ==
  \/ \E file \in Files : HandleFileUpload(file)
  \/ TogglePaintMode
  \/ HandleMouseDown(0)
  \/ HandleMouseUp(0)
  \/ \E ray \in Hits : UseFrameDual(ray)
  \/ \E ray \in Hits : UseFrameBlend(ray)

SpecLoad == Init /\ [][NextLoad]_vars

-----------------------------------------------------------------------------
(* C18 *)

\* A file is chosen while a mesh is loaded, and its load fails.
FailedLoad(file) ==
  /\ geometry # NULL
  /\ HandleFileUpload(file)
  /\ ~LoadMeshFromFile(file).ok

\* C18 as stated: a failed load leaves the loaded mesh state untouched:
\* geometry, both colour buffers, the assignment maps and the session state
\* published to the count display and the export are as before.
C18_AsStated ==
  [][\A file \in Files :
       FailedLoad(file) =>
         /\ geometry' = geometry
         /\ originalColors' = originalColors
         /\ vertexColors' = vertexColors
         /\ paintedVertices' = paintedVertices
         /\ meshLabelVertices' = meshLabelVertices
         /\ painAreaVertices' = painAreaVertices
         /\ meshDataState' = meshDataState]_vars

\* What a failed load does: the painter keeps its state, the App has
\* dropped the session state, the tools and the mode before the load ran.
C18_Observed ==
  [][\A file \in Files :
       FailedLoad(file) =>
         /\ geometry' = geometry
         /\ originalColors' = originalColors
         /\ paintedVertices' = paintedVertices
         /\ meshLabelVertices' = meshLabelVertices
         /\ painAreaVertices' = painAreaVertices
         /\ meshDataState' = NULL
         /\ ~isPainting' /\ ~isErasing'
         /\ GetPaintedVerticesCount' = 0]_vars

-----------------------------------------------------------------------------
(* C19 *)

InvalidGeometryErrors ==
  {"Invalid geometry: no position data",
   "Invalid geometry: contains NaN or infinite values",
   "No valid mesh geometry found in OBJ file"}

\* The position data the loader looks at, in order: the one buffer of an
\* .stl file, the sub-meshes of an .obj file.
Candidates(file) ==
  IF file.ext = ".stl" THEN <<file.positions>> ELSE file.positions

\* Position data that is present, not empty and free of NaN and infinities.
PassesValidation(positions) ==
  /\ DOMAIN positions # {}
  /\ \A i \in DOMAIN positions : \A k \in 1..3 :
       positions[i][k] \notin {NaN, Infinity, NegInfinity}

Passing(file) ==
  {i \in 1..Len(Candidates(file)) : PassesValidation(Candidates(file)[i])}

FirstPassing(file) ==
  Candidates(file)[CHOOSE i \in Passing(file) : \A j \in Passing(file) : i <= j]

Parsed(file) == file.ext \in {".stl", ".obj"}

-----------------------------------------------------------------------------
(* C20 *)

AllCoincide(positions) ==
  \A i, j \in DOMAIN positions : positions[i] = positions[j]

\* C20: for position data that passes validation the load fails with
\* DegenerateGeometry exactly when all vertices coincide; it fails before
\* anything is translated or scaled, and every coordinate of a returned
\* geometry is a finite number (nothing was divided by zero).
C20_ZeroBox ==
  [][\A file \in Files :
       (HandleFileUpload(file) /\ Parsed(file) /\ Passing(file) # {}) =>
         LET loaded == LoadMeshFromFile(file)
             degenerate ==
               /\ ~loaded.ok
               /\ loaded.error = "Invalid geometry: zero-sized bounding box"
         IN  /\ degenerate <=> AllCoincide(FirstPassing(file))
             /\ degenerate => geometry' = geometry
             /\ ~degenerate =>
                  /\ loaded.ok
                  /\ geometry' = loaded.geometry
                  /\ PassesValidation(geometry')]_vars

\* The one-point file was chosen after a mesh had been loaded: the load
\* failed and the painter still has the earlier geometry.
C20_Witness ==
  /\ fileName = <<FilePoint.stem, FilePoint.ext>>
  /\ ~LoadMeshFromFile(FilePoint).ok
  /\ geometry = LoadMeshFromFile(FileA).geometry
  /\ meshDataState = NULL

-----------------------------------------------------------------------------
(* C21 *)

\* Extent of the positions along axis k, and the middle of it.
Extent(positions, k) ==
  RSub(MaxOf(Axis(positions, k)), MinOf(Axis(positions, k)))
Middle(positions, k) ==
  RDiv(RAdd(MaxOf(Axis(positions, k)), MinOf(Axis(positions, k))), Rat(2, 1))
LargestExtent(positions) ==
  RMax(Extent(positions, 1), RMax(Extent(positions, 2), Extent(positions, 3)))

\* C21: a mesh that loads comes back with the same vertices in the same
\* order, each moved by the box centre and scaled by 2 / largest extent; the
\* box of the result has largest extent 2 and centre at the origin, and
\* normalizing the result again returns it unchanged.
C21_Normalized ==
  [][\A file \in Files :
       (HandleFileUpload(file) /\ LoadMeshFromFile(file).ok) =>
         LET input == FirstPassing(file)
             scale == RDiv(Rat(2, 1), LargestExtent(input))
         IN  /\ DOMAIN geometry' = DOMAIN input
             /\ \A i \in DOMAIN input : \A k \in 1..3 :
                  geometry'[i][k] =
                    RMul(RSub(input[i][k], Middle(input, k)), scale)
             /\ LargestExtent(geometry') = Rat(2, 1)
             /\ \A k \in 1..3 : Middle(geometry', k) = RZero
             /\ CenterAndScale(geometry') = [ok |-> TRUE, geometry |-> geometry']]_vars

\* flat.stl (y = 0, 10, 20) is loaded: y = -1, 0, 1 in the same order.
C21_Witness ==
  /\ fileName = <<FileFlat.stem, FileFlat.ext>>
  /\ geometry # NULL
  /\ DOMAIN geometry = DOMAIN FlatInX
  /\ geometry[0] = Vec(RZero, Rat(-1, 1), RZero)
  /\ geometry[1] = Vec(RZero, RZero, RZero)
  /\ geometry[2] = Vec(RZero, ROne, RZero)

-----------------------------------------------------------------------------
(* The brush functions on every brush setting                              *)

\* Brush settings of the panel: two sizes, two strengths, the three falloff
\* kinds.
BrushInputs ==
  {[size |-> s, strength |-> b, falloff |-> f] :
     s \in {Rat(1, 10), Rat(1, 2)}, b \in Strengths,
     f \in {"constant", "linear", "smooth"}}

\* Ray hits: on vertex 1, and half way between vertex 1 and vertex 3.
BrushHits == {HitOnVertex, HitFar}

\* A mesh is loaded, the brush is set, the paint tool is on and the primary
\* button is held.
InitBrush ==
  /\ variant \in Variants
  /\ meshData = [content |-> FileA.positions]
  /\ fileName = <<FileA.stem, FileA.ext>>
  /\ isPainting = TRUE
  /\ isErasing = FALSE
  /\ meshDataState =
       Published(LoadedA, InitializeVertexColors(LoadedA),
                 InitializeVertexColors(LoadedA), EmptyMap, EmptyMap, EmptyMap)
  /\ appMode = "mesh-labeling"
  /\ labelClasses = <<Region1, Region2, Region3>>
  /\ activeClassId = "1"
  /\ brushSettings \in BrushInputs
  /\ geometry = LoadedA
  /\ originalColors = InitializeVertexColors(LoadedA)
  /\ vertexColors = originalColors
  /\ paintedVertices = EmptyMap
  /\ meshLabelVertices = EmptyMap
  /\ painAreaVertices = EmptyMap
  /\ isMouseDown = TRUE
  /\ isRightMouseDown = FALSE
  /\ lastPaintPoint = NULL
  /\ pending = NULL

NextBrush ==
  \/ TogglePaintMode
  \/ ToggleEraseMode
  \/ HandleMouseDown(0)
  \/ HandleMouseUp(0)
  \/ \E ray \in BrushHits : UseFrameDual(ray)
  \/ \E ray \in BrushHits : UseFrameBlend(ray)

SpecBrush == InitBrush /\ [][NextBrush]_vars

\* A frame that calls paintAtPoint at ray, in either painter.
BrushFrame(ray) ==
  \/ variant = "dual" /\ UseFrameDual(ray) /\ FrameAppliesDual(ray)
  \/ variant = "blend" /\ UseFrameBlend(ray) /\ FrameAppliesBlend(ray)

DistanceAt(ray, v) == DistanceTo(geometry[v], ray)

-----------------------------------------------------------------------------
(* C22 *)

\* C22: the strength is 0 at every distance greater than the radius,
\* whatever the falloff kind, and lies between 0 and the base strength at
\* every distance from 0 to the radius.
C22_StrengthRange ==
  [][\A ray \in BrushHits :
       BrushFrame(ray) =>
         \A v \in Vertices :
           LET s == CalculateBrushStrength(DistanceAt(ray, v), brushSettings.size,
                      brushSettings.falloff, brushSettings.strength)
           IN  IF RLt(brushSettings.size, DistanceAt(ray, v))
               THEN s = RZero
               ELSE RLeq(RZero, s) /\ RLeq(s, brushSettings.strength)]_vars

\* A linear brush of radius 1/2 at the origin has been applied: vertex 2, at
\* distance 1/10, is inside, vertices 0 and 3, at distance 1, are outside.
C22_Witness ==
  /\ brushSettings.falloff = "linear"
  /\ brushSettings.size = Rat(1, 2)
  /\ lastPaintPoint = HitOnVertex
  /\ DOMAIN ActiveMap = {1, 2}
  /\ RLt(brushSettings.size, DistanceAt(HitOnVertex, 0))

-----------------------------------------------------------------------------
(* C23 *)

\* The strength the brush settings give at distance d.
StrengthOf(d) ==
  CalculateBrushStrength(d, brushSettings.size, brushSettings.falloff,
                         brushSettings.strength)

\* C23: inside the radius constant falloff gives the base strength at every
\* distance, the edge included; linear gives base * (1 - t) and smooth gives
\* base * (1 - t * t) with t = distance / radius; both do not increase with
\* the distance, are the base strength at distance 0 and 0 on the edge.
C23_FalloffShapes ==
  [][\A ray \in BrushHits :
       BrushFrame(ray) =>
         LET base == brushSettings.strength
             radius == brushSettings.size
             inside == {v \in Vertices : RLeq(DistanceAt(ray, v), radius)}
             T(v) == <<DistanceAt(ray, v)[1] * radius[2],
                       DistanceAt(ray, v)[2] * radius[1]>>
         IN  /\ \A v \in inside :
                  LET s == StrengthOf(DistanceAt(ray, v))
                  IN  /\ brushSettings.falloff = "constant" => s = base
                      /\ brushSettings.falloff = "linear" =>
                           s[1] * base[2] * T(v)[2] =
                             base[1] * (T(v)[2] - T(v)[1]) * s[2]
                      /\ brushSettings.falloff = "smooth" =>
                           s[1] * base[2] * T(v)[2] * T(v)[2] =
                             base[1] * (T(v)[2] * T(v)[2] - T(v)[1] * T(v)[1]) * s[2]
                      /\ (brushSettings.falloff # "constant"
                            /\ DistanceAt(ray, v) = RZero) => s = base
                      /\ (brushSettings.falloff # "constant"
                            /\ DistanceAt(ray, v) = radius) => s = RZero
             /\ \A v, w \in inside :
                  RLeq(DistanceAt(ray, v), DistanceAt(ray, w)) =>
                    RLeq(StrengthOf(DistanceAt(ray, w)),
                         StrengthOf(DistanceAt(ray, v)))]_vars

\* A smooth brush of radius 1/2 has been applied half way between vertex 1
\* and vertex 3: both are on the edge and stay unassigned, vertex 2, at
\* distance 2/5, is assigned.
C23_Witness ==
  /\ brushSettings.falloff = "smooth"
  /\ brushSettings.size = Rat(1, 2)
  /\ lastPaintPoint = HitFar
  /\ DistanceAt(HitFar, 1) = brushSettings.size
  /\ DistanceAt(HitFar, 2) = Rat(2, 5)
  /\ DOMAIN ActiveMap = {2}

-----------------------------------------------------------------------------
(* C24 *)

\* C24: the radius query returns exactly the indices of the vertices whose
\* distance to the centre is at most the radius, each once and in ascending
\* order, and leaves the positions as they are.
C24_RadiusQuery ==
  [][\A ray \in BrushHits :
       BrushFrame(ray) =>
         LET q == GetVerticesInRadius(geometry, ray, brushSettings.size)
         IN  /\ {q[i] : i \in 1..Len(q)} =
                  {v \in DOMAIN geometry :
                     RLeq(DistanceAt(ray, v), brushSettings.size)}
             /\ \A i, j \in 1..Len(q) : i < j => q[i] < q[j]
             /\ geometry' = geometry]_vars

\* A constant brush of radius 1/2 has been applied half way between vertex 1
\* and vertex 3: the query returned 1, 2, 3 (1 and 3 on the edge) and all
\* three are assigned.
C24_Witness ==
  /\ brushSettings.falloff = "constant"
  /\ brushSettings.size = Rat(1, 2)
  /\ lastPaintPoint = HitFar
  /\ GetVerticesInRadius(geometry, HitFar, brushSettings.size) = <<1, 2, 3>>
  /\ DOMAIN ActiveMap = {1, 2, 3}

-----------------------------------------------------------------------------
(* C29 *)

\* Vertices the radius query returns for the brush at ray.
Returned(ray) ==
  {v \in Vertices : RLeq(DistanceAt(ray, v), brushSettings.size)}

\* C29: an operation assigns or erases a vertex if and only if the radius
\* query returns it and its strength is above 0.  With constant falloff
\* that is every vertex within the radius; with linear or smooth falloff a
\* vertex exactly on the edge is returned but not assigned, erased or
\* recolored.
C29_ReturnedAndPositive ==
  [][\A ray \in BrushHits :
       (BrushFrame(ray) /\ (IsErasingProp \/ ActiveClass # NULL)) =>
         LET hit == {v \in Returned(ray) :
                       RLt(RZero, StrengthOf(DistanceAt(ray, v)))}
             edge == {v \in Vertices : DistanceAt(ray, v) = brushSettings.size}
         IN  /\ brushSettings.falloff = "constant" => hit = Returned(ray)
             /\ brushSettings.falloff # "constant" =>
                  hit = Returned(ray) \ edge
             /\ \A v \in hit :
                  IF IsErasingProp THEN v \notin DOMAIN ActiveMap'
                  ELSE v \in DOMAIN ActiveMap' /\ ActiveMap'[v] = ActiveClass.id
             /\ \A v \in Vertices \ hit :
                  /\ v \in DOMAIN ActiveMap' <=> v \in DOMAIN ActiveMap
                  /\ v \in DOMAIN ActiveMap => ActiveMap'[v] = ActiveMap[v]
                  /\ ColorOf(vertexColors', v) = ColorOf(vertexColors, v)]_vars

\* A linear eraser of radius 1/2 has been applied half way between vertex 1
\* and vertex 3: vertex 1, on the edge, was returned by the query and is
\* still assigned.
C29_Witness ==
  /\ isErasing
  /\ brushSettings.falloff = "linear"
  /\ brushSettings.size = Rat(1, 2)
  /\ lastPaintPoint = HitFar
  /\ 1 \in Returned(HitFar)
  /\ DOMAIN ActiveMap = {1}

-----------------------------------------------------------------------------
(* Painting with two classes                                               *)

TwoClassIds == {"1", "2"}

NextClasses ==
  \/ \E file \in Uploads : HandleFileUpload(file)
  \/ \E id \in TwoClassIds : OnActiveClassChange(id)
  \/ \E newMode \in {"mesh-labeling", "pain-assessment"} : SwitchMode(newMode)
  \/ TogglePaintMode
  \/ ToggleEraseMode
  \/ HandleMouseDown(0)
  \/ HandleMouseUp(0)
  \/ \E ray \in TickHits : UseFrameDual(ray)
  \/ \E ray \in TickHits : UseFrameBlend(ray)

SpecClasses == Init /\ [][NextClasses]_vars

-----------------------------------------------------------------------------
(* C25 *)

\* A frame that applies a paint (erase = FALSE) or an erase operation at ray.
AppliedFrame(ray, erase) ==
  /\ \/ variant = "dual" /\ UseFrameDual(ray) /\ FrameAppliesDual(ray)
     \/ variant = "blend" /\ UseFrameBlend(ray) /\ FrameAppliesBlend(ray)
  /\ geometry # NULL
  /\ IsErasingProp = erase
  /\ erase \/ ActiveClass # NULL

\* C25: assignment is last-writer-wins and idempotent.  A paint sets the
\* entry of each vertex it touches to the active class, replacing another
\* id, and changes no other entry; painting what is already assigned to the
\* active class, and erasing what is not in the map, leave the map as it
\* is; selecting another class changes no map.
C25_LastWriterWins ==
  [][/\ \A ray \in TickHits :
          LET hit == Touched(geometry, brushSettings, ray)
          IN  /\ AppliedFrame(ray, FALSE) =>
                   /\ DOMAIN ActiveMap' = DOMAIN ActiveMap \cup hit
                   /\ \A v \in hit : ActiveMap'[v] = ActiveClass.id
                   /\ \A v \in DOMAIN ActiveMap \ hit : ActiveMap'[v] = ActiveMap[v]
                   /\ (\A v \in hit : v \in DOMAIN ActiveMap
                                      /\ ActiveMap[v] = ActiveClass.id)
                        => ActiveMap' = ActiveMap
              /\ (AppliedFrame(ray, TRUE) /\ hit \cap DOMAIN ActiveMap = {})
                   => ActiveMap' = ActiveMap
     /\ \A id \in TwoClassIds :
          OnActiveClassChange(id) =>
            /\ paintedVertices' = paintedVertices
            /\ meshLabelVertices' = meshLabelVertices
            /\ painAreaVertices' = painAreaVertices
            /\ meshDataState' = meshDataState]_vars

\* Vertex 3 was painted with class 1, then class 2 was selected and vertex 1
\* painted: each vertex holds the id it was painted with last.
C25_Witness ==
  /\ activeClassId = "2"
  /\ appMode = "mesh-labeling"
  /\ DOMAIN ActiveMap = {1, 3}
  /\ ActiveMap[1] = "2"
  /\ ActiveMap[3] = "1"

-----------------------------------------------------------------------------
(* C26 *)

\* The active mode's map in the session state s.
PublishedActive(s) ==
  IF variant = "blend" THEN s.paintedVertices ELSE ModeMap(s, appMode)

\* C26 as stated: a clear is durable: the map an operation publishes has
\* the entries of the session state's map before it and the vertices the
\* operation touches, so an entry removed by a clear does not come back
\* unless its vertex is painted again.
C26_AsStated ==
  [][\A p \in AllHits, erase \in BOOLEAN :
       (OpAt(p, erase) /\ meshDataState # NULL /\ (erase \/ ActiveClass # NULL)) =>
         /\ DOMAIN PublishedActive(meshDataState') \subseteq
              DOMAIN PublishedActive(meshDataState) \cup Affected(p)
         /\ GetPaintedVerticesCount' <=
              GetPaintedVerticesCount + Cardinality(Affected(p))]_vars

\* What the painters publish: their own map after the operation, which a
\* clear has not emptied.
C26_Observed ==
  [][/\ \A p \in AllHits, erase \in BOOLEAN :
          (OpAt(p, erase) /\ meshDataState # NULL /\ (erase \/ ActiveClass # NULL)) =>
            /\ PublishedActive(meshDataState') = ActiveMap'
            /\ ActiveMap' = MapAfter(p, erase)
     /\ ClearLabels =>
          /\ ActiveMap' = ActiveMap
          /\ PublishedActive(meshDataState') = EmptyMap]_vars

-----------------------------------------------------------------------------
(* C27: the sample point between strokes                                   *)

NoButtonHeld == ~isMouseDown /\ ~isRightMouseDown

\* C27 as stated: whenever no pointer button is held the last sample point is
\* none, in both painters and whichever button drove the stroke.
C27_AsStated == NoButtonHeld => lastPaintPoint = NULL

\* What the code keeps: a sample point outlives its stroke only in the blend
\* painter; the dual painter has none whenever the primary button is up.
C27_Observed ==
  /\ (NoButtonHeld /\ lastPaintPoint # NULL) => variant = "blend"
  /\ (variant = "dual" /\ ~isMouseDown) => lastPaintPoint = NULL

\* Only the release of the primary button clears the sample point.
C27_ReleaseObserved ==
  [][/\ HandleMouseUp(0) => lastPaintPoint' = NULL
     /\ HandleMouseUp(2) => lastPaintPoint' = lastPaintPoint]_vars

-----------------------------------------------------------------------------
(* C28: the two tools                                                      *)

\* C28: the paint tool and the erase tool are never both active; switchMode,
\* an upload and reset leave both off; toggling paint while erasing leaves
\* only paint on, and toggling erase while painting leaves only erase on.
C28_ToolsExclusive ==
  /\ [](~(isPainting /\ isErasing))
  /\ [][/\ (\E newMode \in Modes : SwitchMode(newMode)) =>
             ~isPainting' /\ ~isErasing'
        /\ (\E file \in Uploads : HandleFileUpload(file)) =>
             ~isPainting' /\ ~isErasing'
        /\ ResetAll => ~isPainting' /\ ~isErasing'
        /\ (TogglePaintMode /\ isErasing) => isPainting' /\ ~isErasing'
        /\ (ToggleEraseMode /\ isPainting) => isErasing' /\ ~isPainting']_vars

\* The erase tool alone is on in pain-assessment mode with a sample taken:
\* the tools were toggled after a mode switch and a stroke is under way.
C28_Witness ==
  /\ isErasing /\ ~isPainting
  /\ appMode = "pain-assessment"
  /\ lastPaintPoint # NULL

-----------------------------------------------------------------------------
(* C30: colours across a mode switch                                       *)

\* Vertices that are only in the mesh-label map and whose class exists and is
\* visible.
LabelOnlyShown ==
  {v \in DOMAIN meshLabelVertices \ DOMAIN painAreaVertices :
     LET c == FindClass(labelClasses, meshLabelVertices[v])
     IN  c # NULL /\ c.visible}

\* C30 as stated: after a switch to either mode, a vertex that is only in the
\* mesh-label map and whose class exists and is visible has that class's
\* colour, and a pain-area vertex has the pain colour.
C30_AsStated ==
  [][\A newMode \in Modes :
       SwitchMode(newMode) =>
         /\ \A v \in LabelOnlyShown :
              ColorOf(vertexColors', v) =
                HexToRgb(FindClass(labelClasses, meshLabelVertices[v]).color)
         /\ \A v \in DOMAIN painAreaVertices :
              ColorOf(vertexColors', v) = HexToRgb(painClass.color)]_vars

\* What the code does: the label colours are drawn only in mesh-labeling
\* mode; in pain-assessment mode a vertex that is only in the mesh-label map
\* falls back to its baseline colour.  The pain colour is drawn in both.
C30_Observed ==
  [][\A newMode \in Modes :
       SwitchMode(newMode) =>
         /\ \A v \in LabelOnlyShown :
              ColorOf(vertexColors', v) =
                IF newMode = "mesh-labeling"
                THEN HexToRgb(FindClass(labelClasses, meshLabelVertices[v]).color)
                ELSE ColorOf(originalColors, v)
         /\ \A v \in DOMAIN painAreaVertices :
              ColorOf(vertexColors', v) = HexToRgb(painClass.color)]_vars

=============================================================================
